---- MODULE Spec2Model ----
(***************************************************************************)
(* A model of the chess960-board repository: the Chess960 position         *)
(* generator (example/src/chess960-utils.ts) and the Chess960Board         *)
(* component (Chess960Board.tsx).  Strings are sequences of one-character  *)
(* strings, so that formatting and parsing are computed, not assumed.      *)
(***************************************************************************)
EXTENDS Integers, Sequences, FiniteSets, TLC

VARIABLES
    genN,       \* the argument n of the generator call
    genPc,      \* "start" | "random" | "backRank" | "fen" | "position"
    genOut,     \* outcome of positionToBackRank / getChess960Position
    genFen,     \* the string returned by backRankToFEN
    sqPc,       \* "rf" | "rfSquare" | "rfBack" | "sq" | "sqCoords" | "sqBack" | "display" | "cell" | "labels"
    sqIn,       \* the argument of the first conversion; the display cell rendered
    sqMid,      \* the result of the first conversion; the cell's grid coordinates and square
    sqOut,      \* the result of converting sqMid back; the cell's coordinate labels
    diffPc,     \* "boards" | "done"
    diffOld,    \* oldBoard, the grid before the update
    diffNew,    \* newBoard, the grid after it
    diffResult, \* the maps detectAndAnimateMoves stored
    props,                  \* the props of the current render
    chess,                  \* the position held by the rules-engine handle
    boardState,             \* the grid displayed
    previousBoardState,     \* the grid kept for the animation diff
    internalSelectedSquare, \* a square, or NullSquare
    draggedPiece,           \* { square, piece }, or NoDrag
    dragOverSquare,         \* a square, or NullSquare
    premoves,               \* the queue of { from, to }
    showPromotionDialog,
    pendingPromotion,       \* { from, to }, or NoPromotion
    calculatedLegalMoves,   \* the value memoised by useMemo
    isPlayerTurn,           \* the value memoised by useMemo
    last,                   \* the handler that ran last: its arguments, what it saw, the callbacks it invoked
    lifecycle,              \* "rendered" (effects pending) | "mounted" | "failed" (render threw)
    chessHistory,           \* the moves made on the rules-engine handle since its last load
    keyboardInput,          \* keyboardInputRef.current
    arrowStart,             \* a square, or NullSquare
    isDrawingArrow,
    rightClickedSquares,    \* the highlighted squares
    arrowValidMoves,        \* the value memoised by useMemo
    animatingPieces,        \* Map: key -> { from, to, piece }
    capturedPieces,         \* Map: square -> { square, piece }
    timers,                 \* the animation timeouts pending
    typed                   \* the keys the user pressed since the last Enter or Escape

genVars == <<genN, genPc, genOut, genFen>>
sqVars == <<sqPc, sqIn, sqMid, sqOut>>
diffVars == <<diffPc, diffOld, diffNew, diffResult>>

boardVars ==
    <<props, chess, boardState, previousBoardState, internalSelectedSquare, draggedPiece,
      dragOverSquare, premoves, showPromotionDialog, pendingPromotion,
      calculatedLegalMoves, isPlayerTurn, last>>

engineVars ==
    <<lifecycle, chessHistory, keyboardInput, arrowStart, isDrawingArrow, rightClickedSquares,
      arrowValidMoves, animatingPieces, capturedPieces, timers>>

vars == <<genVars, sqVars, diffVars, boardVars, engineVars, typed>>

\* Each part of the repository is explored by its own specification; the
\* variables of the other parts rest at these values meanwhile.
GenAtRest == genN = 0 /\ genPc = "rest" /\ genOut = <<>> /\ genFen = <<>>
SqAtRest == sqPc = "rest" /\ sqIn = <<>> /\ sqMid = <<>> /\ sqOut = <<>>
DiffAtRest == diffPc = "rest" /\ diffOld = <<>> /\ diffNew = <<>> /\ diffResult = <<>>

BoardAtRest ==
    /\ props = <<>> /\ chess = "" /\ boardState = <<>> /\ previousBoardState = <<>>
    /\ internalSelectedSquare = <<>> /\ draggedPiece = <<>> /\ dragOverSquare = <<>>
    /\ premoves = <<>> /\ showPromotionDialog = FALSE /\ pendingPromotion = <<>>
    /\ calculatedLegalMoves = <<>> /\ isPlayerTurn = TRUE /\ last = <<>>
    /\ lifecycle = "" /\ chessHistory = <<>> /\ keyboardInput = <<>>
    /\ arrowStart = <<>> /\ isDrawingArrow = FALSE /\ rightClickedSquares = {}
    /\ arrowValidMoves = <<>> /\ animatingPieces = <<>> /\ capturedPieces = <<>> /\ timers = 0
    /\ typed = <<>>

GenFrame == UNCHANGED <<sqVars, diffVars, boardVars, engineVars, typed>>
SqFrame == UNCHANGED <<genVars, diffVars, boardVars, engineVars, typed>>
DiffFrame == UNCHANGED <<genVars, sqVars, boardVars, engineVars, typed>>
BoardFrame == UNCHANGED <<genVars, sqVars, diffVars, typed>>

(***************************************************************************)
(* JavaScript primitives                                                   *)
(***************************************************************************)

\* JavaScript's % : the remainder takes the sign of the dividend.
JsRem(a, b) == IF a >= 0 THEN a % b ELSE 0 - ((0 - a) % b)

\* Math.floor(a / b) for b > 0.
JsFloorDiv(a, b) == a \div b

\* JavaScript's undefined where an array index was expected: no index of any array.
Undefined == 0 - 1

\* arr[i] of a 0-indexed array of indices: undefined outside its bounds.
At(arr, i) == IF i \in 0..(Len(arr) - 1) THEN arr[i + 1] ELSE Undefined

\* arr[i] = v on an array of fixed length: an index that is undefined (or no
\* index of the array at all) sets a property and leaves the elements alone.
Put(arr, i, v) == IF i \in 0..(Len(arr) - 1) THEN [arr EXCEPT ![i + 1] = v] ELSE arr

LowerOf(c) ==
    CASE c = "R" -> "r" [] c = "N" -> "n" [] c = "B" -> "b" [] c = "Q" -> "q"
      [] c = "K" -> "k" [] c = "P" -> "p" [] OTHER -> c

UpperOf(c) ==
    CASE c = "r" -> "R" [] c = "n" -> "N" [] c = "b" -> "B" [] c = "q" -> "Q"
      [] c = "k" -> "K" [] c = "p" -> "P" [] OTHER -> c

\* String.prototype.toLowerCase / toUpperCase
toLowerCase(s) == [i \in 1..Len(s) |-> LowerOf(s[i])]
toUpperCase(s) == [i \in 1..Len(s) |-> UpperOf(s[i])]

\* Array.prototype.join(''): the elements' characters, empty strings vanish.
RECURSIVE join(_)
join(arr) ==
    IF arr = <<>> THEN <<>>
    ELSE (IF Head(arr) = "" THEN <<>> ELSE <<Head(arr)>>) \o join(Tail(arr))

(***************************************************************************)
(* chess960-utils.ts                                                       *)
(***************************************************************************)

ROOK == "R"
KNIGHT == "N"
BISHOP == "B"
QUEEN == "Q"
KING == "K"

MinPosition == 1
MaxPosition == 960

\* How far outside 1..960 the arguments tried reach.
Margin == 3

RangeErrorMessage == "Position must be between 1 and 960"
TypeErrorMessage == "TypeError"

Thrown(msg) == [threw |-> TRUE, error |-> msg, pieces |-> <<>>, knightIdx |-> 0 - 1]
Returned(p, k) == [threw |-> FALSE, error |-> "", pieces |-> p, knightIdx |-> k]
NoOutcome == [threw |-> FALSE, error |-> "", pieces |-> <<>>, knightIdx |-> 0 - 1]

\* if (n < 1 || n > 960) throw
OutOfRange_LowOffByOne(n) == n < MinPosition - 1 \/ n > MaxPosition
OutOfRange(n) == n < MinPosition \/ n > MaxPosition

lightSquares == <<1, 3, 5, 7>>
darkSquares == <<0, 2, 4, 6>>

knightPlacements ==
    << <<0, 1>>, <<0, 2>>, <<0, 3>>, <<0, 4>>,
       <<1, 2>>, <<1, 3>>, <<1, 4>>,
       <<2, 3>>, <<2, 4>>,
       <<3, 4>> >>

\* pieces.map((p, i) => p === '' ? i : -1).filter(i => i >= 0)
EmptyIndices(pieces) ==
    SelectSeq([i \in 1..Len(pieces) |-> i - 1], LAMBDA i : pieces[i + 1] = "")

\* Step 1: the two bishops; returns the board and the quotient left.
PlaceBishops(n0) ==
    LET p0 == [i \in 1..8 |-> ""]
        lightBishopIdx == JsRem(n0, 4)
        p1 == Put(p0, At(lightSquares, lightBishopIdx), BISHOP)
        n1 == JsFloorDiv(n0, 4)
        darkBishopIdx == JsRem(n1, 4)
        p2 == Put(p1, At(darkSquares, darkBishopIdx), BISHOP)
    IN  [pieces |-> p2, n |-> JsFloorDiv(n1, 4)]

\* Step 2: the queen on the queenIdx-th empty square.
PlaceQueen_Mod4(st) ==
    LET emptySquares == EmptyIndices(st.pieces)
        queenIdx == JsRem(st.n, 4)
    IN  [pieces |-> Put(st.pieces, At(emptySquares, queenIdx), QUEEN),
         n |-> JsFloorDiv(st.n, 6)]
PlaceQueen(st) ==
    LET emptySquares == EmptyIndices(st.pieces)
        queenIdx == JsRem(st.n, 6)
    IN  [pieces |-> Put(st.pieces, At(emptySquares, queenIdx), QUEEN),
         n |-> JsFloorDiv(st.n, 6)]

\* Step 3: the knights; knightPlacements[n] undefined makes [0] a TypeError.
PlaceKnights(st) ==
    LET remainingSquares == EmptyIndices(st.pieces)
        knightPlacement == At(knightPlacements, st.n)
    IN  IF st.n \notin 0..(Len(knightPlacements) - 1)
        THEN [threw |-> TRUE, n |-> st.n, pieces |-> st.pieces]
        ELSE [threw |-> FALSE, n |-> st.n,
              pieces |-> Put(Put(st.pieces, At(remainingSquares, knightPlacement[1]), KNIGHT),
                             At(remainingSquares, knightPlacement[2]), KNIGHT)]

\* Step 4: rook, king, rook on the three squares left, in file order.
PlaceRooksAndKing_KingFirst(pieces) ==
    LET lastSquares == EmptyIndices(pieces)
    IN  Put(Put(Put(pieces, At(lastSquares, 0), KING),
                At(lastSquares, 1), ROOK),
            At(lastSquares, 2), ROOK)
PlaceRooksAndKing(pieces) ==
    LET lastSquares == EmptyIndices(pieces)
    IN  Put(Put(Put(pieces, At(lastSquares, 0), ROOK),
                At(lastSquares, 1), KING),
            At(lastSquares, 2), ROOK)

positionToBackRank(n) ==
    IF OutOfRange(n) THEN Thrown(RangeErrorMessage)
    ELSE LET kn == PlaceKnights(PlaceQueen(PlaceBishops(n - 1)))
         IN  IF kn.threw THEN Thrown(TypeErrorMessage)
             ELSE Returned(PlaceRooksAndKing(kn.pieces), kn.n)

Pawns8Lower == <<"p", "p", "p", "p", "p", "p", "p", "p">>
Pawns8Upper == <<"P", "P", "P", "P", "P", "P", "P", "P">>
FenTail == <<" ", "w", " ", "K", "Q", "k", "q", " ", "-", " ", "0", " ", "1">>

\* `${whiteBackRank}/pppppppp/8/8/8/8/PPPPPPPP/${blackBackRank} w KQkq - 0 1`
backRankToFEN_CaseSwapped(pieces) ==
    LET backRank == join(pieces)
    IN  toUpperCase(backRank) \o <<"/">> \o Pawns8Lower
          \o <<"/", "8", "/", "8", "/", "8", "/", "8", "/">> \o Pawns8Upper
          \o <<"/">> \o toLowerCase(backRank) \o FenTail
backRankToFEN(pieces) ==
    LET backRank == join(pieces)
        whiteBackRank == toLowerCase(backRank)
        blackBackRank == toUpperCase(backRank)
    IN  whiteBackRank \o <<"/">> \o Pawns8Lower
          \o <<"/", "8", "/", "8", "/", "8", "/", "8", "/">> \o Pawns8Upper
          \o <<"/">> \o blackBackRank \o FenTail

\* { position: n, fen, pieces }, or the error positionToBackRank raised.
getChess960Position(n) ==
    LET r == positionToBackRank(n)
    IN  IF r.threw THEN [threw |-> TRUE, error |-> r.error, position |-> 0, fen |-> <<>>, pieces |-> <<>>]
        ELSE [threw |-> FALSE, error |-> "", position |-> n,
              fen |-> backRankToFEN(r.pieces), pieces |-> r.pieces]

\* Math.floor(Math.random() * 960) + 1
generateRandomPosition == MinPosition..MaxPosition

(***************************************************************************)
(* The generator's calls as a state machine                                *)
(***************************************************************************)

GenInputs == (MinPosition - Margin)..(MaxPosition + Margin)

\* A call with an argument drawn from GenInputs, or the argument-less random call.
InitGen ==
    /\ \/ genPc = "start" /\ genN \in GenInputs
       \/ genPc = "random" /\ genN = 0
    /\ genOut = NoOutcome
    /\ genFen = <<>>
    /\ SqAtRest /\ DiffAtRest /\ BoardAtRest

CallPositionToBackRank ==
    /\ genPc = "start"
    /\ genOut' = positionToBackRank(genN)
    /\ genPc' = "backRank"
    /\ UNCHANGED <<genN, genFen>>
    /\ GenFrame

CallBackRankToFEN ==
    /\ genPc = "backRank"
    /\ ~genOut.threw
    /\ genFen' = backRankToFEN(genOut.pieces)
    /\ genPc' = "fen"
    /\ UNCHANGED <<genN, genOut>>
    /\ GenFrame

CallGetChess960Position ==
    /\ genPc = "start"
    /\ genOut' = getChess960Position(genN)
    /\ genPc' = "position"
    /\ UNCHANGED <<genN, genFen>>
    /\ GenFrame

CallGetRandomChess960Position ==
    /\ genPc = "random"
    /\ \E position \in generateRandomPosition :
          /\ genN' = position
          /\ genOut' = getChess960Position(position)
    /\ genPc' = "position"
    /\ UNCHANGED genFen
    /\ GenFrame

NextGen ==
    \/ CallPositionToBackRank
    \/ CallBackRankToFEN
    \/ CallGetChess960Position
    \/ CallGetRandomChess960Position

SpecGen == InitGen /\ [][NextGen]_vars

(***************************************************************************)
(* Properties of the generator                                             *)
(***************************************************************************)

\* The 0-indexed files on which letter c stands in arrangement p.
FilesOf(p, c) == {i \in 0..(Len(p) - 1) : p[i + 1] = c}

StandardBackRank == <<"R", "N", "B", "Q", "K", "B", "N", "R">>

\* The fields of string s between the occurrences of character sep.
RECURSIVE SplitOn(_, _)
SplitOn(s, sep) ==
    IF \A i \in 1..Len(s) : s[i] # sep THEN <<s>>
    ELSE LET k == CHOOSE i \in 1..Len(s) : s[i] = sep /\ \A j \in 1..(i - 1) : s[j] # sep
         IN  <<SubSeq(s, 1, k - 1)>> \o SplitOn(SubSeq(s, k + 1, Len(s)), sep)

\* What a FEN reader sees: the eight rank fields (rank 8 first) and the other fields.
FenFields(fen) == SplitOn(fen, " ")
FenRanks(fen) == SplitOn(FenFields(fen)[1], "/")

StandardFen ==
    <<"r", "n", "b", "q", "k", "b", "n", "r", "/">> \o Pawns8Lower
      \o <<"/", "8", "/", "8", "/", "8", "/", "8", "/">> \o Pawns8Upper
      \o <<"/", "R", "N", "B", "Q", "K", "B", "N", "R">> \o FenTail

\* The arrangement a finished call returned (both entry points carry it).
GenReturned == genPc \in {"backRank", "position"} /\ ~genOut.threw

WellFormedBackRank(p) ==
    /\ Len(p) = 8
    /\ Cardinality(FilesOf(p, KING)) = 1
    /\ Cardinality(FilesOf(p, QUEEN)) = 1
    /\ Cardinality(FilesOf(p, ROOK)) = 2
    /\ Cardinality(FilesOf(p, KNIGHT)) = 2
    /\ Cardinality(FilesOf(p, BISHOP)) = 2
    /\ \A k \in FilesOf(p, KING) :
          /\ \E r \in FilesOf(p, ROOK) : r < k
          /\ \E r \in FilesOf(p, ROOK) : r > k
    /\ \E b1 \in FilesOf(p, BISHOP) : \E b2 \in FilesOf(p, BISHOP) :
          b1 % 2 = 1 /\ b2 % 2 = 0

\* C1: for every n in 1..960 the arrangement returned has one K, one Q, two R,
\* two N, two B, the K strictly between the R's and the B's on files of
\* opposite parity.
C1_BackRankWellFormed ==
    (GenReturned /\ genN \in 1..960) => WellFormedBackRank(genOut.pieces)

C1_Witness ==
    /\ genPc = "backRank" /\ genN = 960 /\ ~genOut.threw
    /\ genOut.pieces = <<"R", "K", "R", "N", "N", "Q", "B", "B">>

\* C2: positionToBackRank(518) is R,N,B,Q,K,B,N,R and getChess960Position(518).fen
\* is the standard starting array.
C2_Standard518 ==
    /\ (genPc = "backRank" /\ genN = 518) => genOut.pieces = StandardBackRank
    /\ (genPc = "position" /\ genN = 518) => genOut.fen = StandardFen

\* C3: positionToBackRank(n) raises the out-of-range error and returns nothing
\* exactly when n < 1 or n > 960, and getChess960Position(n) surfaces the same
\* error with no partial result.
C3_OutOfRangeRaises ==
    /\ genPc = "backRank" =>
          /\ genOut.threw <=> (genN < 1 \/ genN > 960)
          /\ genOut.threw => genOut.error = RangeErrorMessage /\ genOut.pieces = <<>>
    /\ genPc = "position" =>
          /\ genOut.threw <=> (genN < 1 \/ genN > 960)
          /\ genOut.threw =>
                /\ genOut.error = RangeErrorMessage
                /\ genOut.pieces = <<>> /\ genOut.fen = <<>>

C3_Witness ==
    /\ genPc = "position" /\ genN \in {0, 961}
    /\ genOut.threw /\ genOut.error = RangeErrorMessage

\* The arrangement of every position number.
BackRankTable == [m \in MinPosition..MaxPosition |-> positionToBackRank(m)]

\* C4: two different position numbers in 1..960 never give the same
\* arrangement, and the knight-table index is within 0..9.
C4_Injective ==
    (genPc = "backRank" /\ genN \in 1..960) =>
        /\ ~genOut.threw
        /\ genOut.knightIdx \in 0..9
        /\ \A m \in 1..960 : m # genN => BackRankTable[m].pieces # genOut.pieces

C4_Witness ==
    genPc = "backRank" /\ genN = 960 /\ ~genOut.threw /\ genOut.knightIdx = 9

\* C5: the FEN of an arrangement p has p in lowercase as rank 8, p in
\* uppercase as rank 1, eight black pawns on rank 7 and eight white pawns on
\* rank 2, ranks 3 to 6 empty, and the fields w KQkq - 0 1.
FenRoundTrips(fen, p) ==
    LET ranks == FenRanks(fen)
        fields == FenFields(fen)
    IN  /\ Len(ranks) = 8
        /\ Len(ranks[1]) = 8 /\ Len(ranks[8]) = 8
        /\ \A f \in 1..8 :
              /\ ranks[1][f] = LowerOf(p[f]) /\ ranks[1][f] # p[f]
              /\ ranks[8][f] = p[f] /\ UpperOf(ranks[8][f]) = ranks[8][f]
        /\ ranks[2] = Pawns8Lower
        /\ ranks[7] = Pawns8Upper
        /\ \A r \in 3..6 : ranks[r] = <<"8">>
        /\ Cardinality({i \in 1..Len(fields[1]) : fields[1][i] \in {"p", "P"}}) = 16
        /\ Len(fields) = 6
        /\ fields[2] = <<"w">>
        /\ fields[3] = <<"K", "Q", "k", "q">>
        /\ fields[4] = <<"-">>
        /\ fields[5] = <<"0">>
        /\ fields[6] = <<"1">>

C5_FenRoundTrip ==
    /\ genPc = "fen" => FenRoundTrips(genFen, genOut.pieces)
    /\ (genPc = "position" /\ ~genOut.threw) => FenRoundTrips(genOut.fen, genOut.pieces)

C5_Witness ==
    /\ genPc = "fen" /\ genN = 1
    /\ genOut.pieces = <<"B", "B", "Q", "N", "N", "R", "K", "R">>
    /\ SubSeq(genFen, 1, 8) = <<"b", "b", "q", "n", "n", "r", "k", "r">>

(***************************************************************************)
(* Chess960Board.tsx: squares and grid coordinates                         *)
(***************************************************************************)

files == <<"a", "b", "c", "d", "e", "f", "g", "h">>
ranks == <<"8", "7", "6", "5", "4", "3", "2", "1">>
ranksAscending == <<"1", "2", "3", "4", "5", "6", "7", "8">>

\* str[i] inside a template literal: the text "undefined" outside the string.
StrAt(str, i) == IF i \in 0..(Len(str) - 1) THEN str[i + 1] ELSE "undefined"

\* `${files[file]}${ranks[rank]}`; row 0 is rank 8, row 7 is rank 1.
rankFileToSquare_RanksAscending(rank, file) == <<StrAt(files, file), StrAt(ranksAscending, rank)>>
rankFileToSquare(rank, file) == <<StrAt(files, file), StrAt(ranks, rank)>>

\* square.charCodeAt(0), for the file letters.
charCodeAt0(square) ==
    CASE square[1] = "a" -> 97 [] square[1] = "b" -> 98 [] square[1] = "c" -> 99
      [] square[1] = "d" -> 100 [] square[1] = "e" -> 101 [] square[1] = "f" -> 102
      [] square[1] = "g" -> 103 [] square[1] = "h" -> 104

\* parseInt of one decimal digit.
parseInt(c) ==
    CASE c = "0" -> 0 [] c = "1" -> 1 [] c = "2" -> 2 [] c = "3" -> 3 [] c = "4" -> 4
      [] c = "5" -> 5 [] c = "6" -> 6 [] c = "7" -> 7 [] c = "8" -> 8 [] c = "9" -> 9

\* { rank: 8 - parseInt(square[1]), file: square.charCodeAt(0) - 97 }
squareToRankFile(square) ==
    [rank |-> 8 - parseInt(square[2]), file |-> charCodeAt0(square) - 97]

\* The 64 squares [a-h][1-8] and the 64 cells of the grid.
AllSquares ==
    {<<f, r>> : f \in {"a", "b", "c", "d", "e", "f", "g", "h"},
                r \in {"1", "2", "3", "4", "5", "6", "7", "8"}}
AllCells == [rank : 0..7, file : 0..7]

InitSq ==
    /\ \/ sqPc = "rf" /\ sqIn \in AllCells
       \/ sqPc = "sq" /\ sqIn \in AllSquares
    /\ sqMid = <<>>
    /\ sqOut = <<>>
    /\ GenAtRest /\ DiffAtRest /\ BoardAtRest

CallRankFileToSquare ==
    /\ sqPc = "rf"
    /\ sqMid' = rankFileToSquare(sqIn.rank, sqIn.file)
    /\ sqPc' = "rfSquare"
    /\ UNCHANGED <<sqIn, sqOut>>
    /\ SqFrame

CallSquareToRankFileBack ==
    /\ sqPc = "rfSquare"
    /\ sqOut' = squareToRankFile(sqMid)
    /\ sqPc' = "rfBack"
    /\ UNCHANGED <<sqIn, sqMid>>
    /\ SqFrame

CallSquareToRankFile ==
    /\ sqPc = "sq"
    /\ sqMid' = squareToRankFile(sqIn)
    /\ sqPc' = "sqCoords"
    /\ UNCHANGED <<sqIn, sqOut>>
    /\ SqFrame

CallRankFileToSquareBack ==
    /\ sqPc = "sqCoords"
    /\ sqOut' = rankFileToSquare(sqMid.rank, sqMid.file)
    /\ sqPc' = "sqBack"
    /\ UNCHANGED <<sqIn, sqMid>>
    /\ SqFrame

NextSq ==
    \/ CallRankFileToSquare
    \/ CallSquareToRankFileBack
    \/ CallSquareToRankFile
    \/ CallRankFileToSquareBack

SpecSq == InitSq /\ [][NextSq]_vars

\* C6: the two conversions are mutually inverse over the 64 squares, with row
\* 0 on rank 8 and row 7 on rank 1.
C6_SquareBijection ==
    /\ sqPc = "rfSquare" =>
          /\ sqMid \in AllSquares
          /\ sqIn.rank = 0 => sqMid[2] = "8"
          /\ sqIn.rank = 7 => sqMid[2] = "1"
          /\ sqIn.file = 0 => sqMid[1] = "a"
    /\ sqPc = "rfBack" => sqOut = sqIn
    /\ sqPc = "sqCoords" => sqMid \in AllCells
    /\ sqPc = "sqBack" => sqOut = sqIn

C6_Witness ==
    /\ sqPc = "rfBack"
    /\ sqIn = [rank |-> 0, file |-> 4]
    /\ sqMid = <<"e", "8">>
    /\ sqOut = [rank |-> 0, file |-> 4]

(***************************************************************************)
(* Chess960Board.tsx: pieces, grids and the animation diff                 *)
(***************************************************************************)

\* An empty cell of the grid (null).
NullPiece == [type |-> "", color |-> ""]

Piece(color, type) == [type |-> type, color |-> color]

\* Array(8).fill(null).map(() => Array(8).fill(null))
EmptyBoard == [rank \in 0..7 |-> [file \in 0..7 |-> NullPiece]]

\* board[rank]?.[file]
PieceAt(board, rank, file) == board[rank][file]

\* The cells in the order of the two nested loops: rows 0..7, files 0..7 in each.
ScanOrder == [i \in 1..64 |-> [rank |-> (i - 1) \div 8, file |-> (i - 1) % 8]]

\* `${newSquare}-${oldPiece.color}-${oldPiece.type}`
AnimKey(newSquare, piece) == newSquare \o <<"-", piece.color, "-", piece.type>>

\* Map.prototype.set
MapSet(m, k, v) == (k :> v) @@ m
EmptyMap == <<>>

\* The inner loops: the position in ScanOrder of the first cell of newBoard that
\* holds a piece of oldPiece's colour and type on another square than `square`;
\* 0 when there is none.
FindSamePiece(oldBoard, newBoard, oldPiece, square) ==
    LET hits == {j \in 1..64 :
                    LET testPiece == PieceAt(newBoard, ScanOrder[j].rank, ScanOrder[j].file)
                    IN  /\ testPiece # NullPiece
                        /\ testPiece.color = oldPiece.color
                        /\ testPiece.type = oldPiece.type
                        /\ rankFileToSquare(ScanOrder[j].rank, ScanOrder[j].file) # square}
    IN  IF hits = {} THEN 0 ELSE CHOOSE j \in hits : \A k \in hits : j <= k

\* The outer loops from cell i on; acc holds the two maps built so far.
RECURSIVE DetectFrom(_, _, _, _)
DetectFrom(oldBoard, newBoard, i, acc) ==
    IF i > 64 THEN acc
    ELSE LET rank == ScanOrder[i].rank
             file == ScanOrder[i].file
             oldPiece == PieceAt(oldBoard, rank, file)
             newPiece == PieceAt(newBoard, rank, file)
             square == rankFileToSquare(rank, file)
         IN  IF oldPiece # NullPiece
                /\ (newPiece = NullPiece \/ newPiece.color # oldPiece.color
                      \/ newPiece.type # oldPiece.type)
             THEN LET j == FindSamePiece(oldBoard, newBoard, oldPiece, square)
                      newSquare == rankFileToSquare(ScanOrder[j].rank, ScanOrder[j].file)
                  IN  IF j # 0
                      THEN DetectFrom(oldBoard, newBoard, i + 1,
                              [acc EXCEPT !.animating =
                                  MapSet(@, AnimKey(newSquare, oldPiece),
                                         [from |-> square, to |-> newSquare, piece |-> oldPiece])])
                      ELSE DetectFrom(oldBoard, newBoard, i + 1,
                              [acc EXCEPT !.captured =
                                  MapSet(@, square, [square |-> square, piece |-> oldPiece])])
             ELSE DetectFrom(oldBoard, newBoard, i + 1, acc)

\* The maps handed to setAnimatingPieces and setCapturedPieces.
detectAndAnimateMoves(oldBoard, newBoard) ==
    DetectFrom(oldBoard, newBoard, 1, [animating |-> EmptyMap, captured |-> EmptyMap])

(***************************************************************************)
(* The diff applied to pairs of grids                                      *)
(***************************************************************************)

\* The grids tried hold at most MaxPieces pieces, of the kinds DiffKinds, on
\* the cells DiffCells (a7, d5, e4, f3, b1, g1).
MaxPieces == 3

DiffCells ==
    {[rank |-> 1, file |-> 0], [rank |-> 3, file |-> 3], [rank |-> 4, file |-> 4],
     [rank |-> 5, file |-> 5], [rank |-> 7, file |-> 1], [rank |-> 7, file |-> 6]}

DiffKinds == {Piece("white", "n"), Piece("white", "p"), Piece("black", "p")}

GridOf(pl) ==
    [rank \in 0..7 |-> [file \in 0..7 |->
        IF [rank |-> rank, file |-> file] \in DiffCells
        THEN pl[[rank |-> rank, file |-> file]] ELSE NullPiece]]

DiffGrids ==
    {GridOf(pl) : pl \in {q \in [DiffCells -> DiffKinds \cup {NullPiece}] :
                              Cardinality({c \in DiffCells : q[c] # NullPiece}) <= MaxPieces}}

SetCell(board, c, piece) == [board EXCEPT ![c.rank][c.file] = piece]

InitDiff ==
    /\ diffPc = "old"
    /\ diffOld \in DiffGrids
    /\ diffNew = <<>>
    /\ diffResult = <<>>
    /\ GenAtRest /\ SqAtRest /\ BoardAtRest

\* The next position moves one piece (onto an empty cell or onto another piece).
HostMovesPiece ==
    /\ diffPc = "old"
    /\ \E a \in DiffCells, b \in DiffCells :
          /\ a # b
          /\ PieceAt(diffOld, a.rank, a.file) # NullPiece
          /\ diffNew' = SetCell(SetCell(diffOld, a, NullPiece), b, PieceAt(diffOld, a.rank, a.file))
    /\ diffPc' = "boards"
    /\ UNCHANGED <<diffOld, diffResult>>
    /\ DiffFrame

\* The next position lacks one piece.
HostRemovesPiece ==
    /\ diffPc = "old"
    /\ \E a \in DiffCells :
          /\ PieceAt(diffOld, a.rank, a.file) # NullPiece
          /\ diffNew' = SetCell(diffOld, a, NullPiece)
    /\ diffPc' = "boards"
    /\ UNCHANGED <<diffOld, diffResult>>
    /\ DiffFrame

CallDetectAndAnimateMoves ==
    /\ diffPc = "boards"
    /\ diffResult' = detectAndAnimateMoves(diffOld, diffNew)
    /\ diffPc' = "done"
    /\ UNCHANGED <<diffOld, diffNew>>
    /\ DiffFrame

NextDiff ==
    \/ HostMovesPiece
    \/ HostRemovesPiece
    \/ CallDetectAndAnimateMoves

SpecDiff == InitDiff /\ [][NextDiff]_vars

CellSquare(c) == rankFileToSquare(c.rank, c.file)

\* newBoard is oldBoard with the piece of cell a moved to the empty cell b.
IsSingleMove(oldBoard, newBoard, a, b) ==
    /\ a # b
    /\ PieceAt(oldBoard, a.rank, a.file) # NullPiece
    /\ PieceAt(oldBoard, b.rank, b.file) = NullPiece
    /\ PieceAt(newBoard, a.rank, a.file) = NullPiece
    /\ PieceAt(newBoard, b.rank, b.file) = PieceAt(oldBoard, a.rank, a.file)
    /\ \A c \in AllCells \ {a, b} :
          PieceAt(newBoard, c.rank, c.file) = PieceAt(oldBoard, c.rank, c.file)

\* C7: when the new grid is the old one with one piece moved from A to an
\* empty B, exactly one animation is recorded, from A to B and keyed at B, and
\* no capture.
C7_SingleMoveAnimatedToB ==
    diffPc = "done" =>
        \A a \in DiffCells, b \in DiffCells :
            IsSingleMove(diffOld, diffNew, a, b) =>
                LET piece == PieceAt(diffOld, a.rank, a.file)
                    key == AnimKey(CellSquare(b), piece)
                IN  /\ DOMAIN diffResult.animating = {key}
                    /\ diffResult.animating[key].from = CellSquare(a)
                    /\ diffResult.animating[key].to = CellSquare(b)
                    /\ DOMAIN diffResult.captured = {}

\* The piece of cell a is gone from it and no piece of its colour and type
\* stands in newBoard on a cell where it did not stand in oldBoard.
IsDisappearance(oldBoard, newBoard, a) ==
    LET piece == PieceAt(oldBoard, a.rank, a.file)
    IN  /\ piece # NullPiece
        /\ PieceAt(newBoard, a.rank, a.file) # piece
        /\ \A c \in AllCells \ {a} :
              PieceAt(newBoard, c.rank, c.file) = piece
                  => PieceAt(oldBoard, c.rank, c.file) = piece

\* C8: when the piece on A is gone and no piece of its colour and type newly
\* appears elsewhere, one capture entry is recorded for A and no animation
\* starts from A.
C8_DisappearanceCaptured ==
    diffPc = "done" =>
        \A a \in DiffCells :
            IsDisappearance(diffOld, diffNew, a) =>
                /\ CellSquare(a) \in DOMAIN diffResult.captured
                /\ \A k \in DOMAIN diffResult.animating :
                      diffResult.animating[k].from # CellSquare(a)

(***************************************************************************)
(* The rules engine (chess.js), as the component uses it                   *)
(***************************************************************************)

\* The FEN strings the host supplies are named; what the rules engine makes of
\* each (side to move, pieces, legal moves with their flags and SAN) is tabled.

\* 4k3/1P6/8/8/8/8/P7/R3K2R w KQ - 0 1
PositionWhiteToMove ==
    [turn |-> "w",
     placed |-> {[square |-> <<"e", "8">>, color |-> "b", type |-> "k"],
                 [square |-> <<"b", "7">>, color |-> "w", type |-> "p"],
                 [square |-> <<"a", "2">>, color |-> "w", type |-> "p"],
                 [square |-> <<"a", "1">>, color |-> "w", type |-> "r"],
                 [square |-> <<"e", "1">>, color |-> "w", type |-> "k"],
                 [square |-> <<"h", "1">>, color |-> "w", type |-> "r"]},
     moves |-> <<
        [from |-> <<"b", "7">>, to |-> <<"b", "8">>, flags |-> <<"n", "p">>, san |-> <<"b", "8", "=", "Q", "+">>],
        [from |-> <<"b", "7">>, to |-> <<"b", "8">>, flags |-> <<"n", "p">>, san |-> <<"b", "8", "=", "R", "+">>],
        [from |-> <<"b", "7">>, to |-> <<"b", "8">>, flags |-> <<"n", "p">>, san |-> <<"b", "8", "=", "B">>],
        [from |-> <<"b", "7">>, to |-> <<"b", "8">>, flags |-> <<"n", "p">>, san |-> <<"b", "8", "=", "N">>],
        [from |-> <<"a", "2">>, to |-> <<"a", "3">>, flags |-> <<"n">>, san |-> <<"a", "3">>],
        [from |-> <<"a", "2">>, to |-> <<"a", "4">>, flags |-> <<"b">>, san |-> <<"a", "4">>],
        [from |-> <<"a", "1">>, to |-> <<"b", "1">>, flags |-> <<"n">>, san |-> <<"R", "b", "1">>],
        [from |-> <<"a", "1">>, to |-> <<"c", "1">>, flags |-> <<"n">>, san |-> <<"R", "c", "1">>],
        [from |-> <<"a", "1">>, to |-> <<"d", "1">>, flags |-> <<"n">>, san |-> <<"R", "d", "1">>],
        [from |-> <<"e", "1">>, to |-> <<"d", "2">>, flags |-> <<"n">>, san |-> <<"K", "d", "2">>],
        [from |-> <<"e", "1">>, to |-> <<"e", "2">>, flags |-> <<"n">>, san |-> <<"K", "e", "2">>],
        [from |-> <<"e", "1">>, to |-> <<"f", "2">>, flags |-> <<"n">>, san |-> <<"K", "f", "2">>],
        [from |-> <<"e", "1">>, to |-> <<"d", "1">>, flags |-> <<"n">>, san |-> <<"K", "d", "1">>],
        [from |-> <<"e", "1">>, to |-> <<"f", "1">>, flags |-> <<"n">>, san |-> <<"K", "f", "1">>],
        [from |-> <<"e", "1">>, to |-> <<"g", "1">>, flags |-> <<"k">>, san |-> <<"O", "-", "O">>],
        [from |-> <<"e", "1">>, to |-> <<"c", "1">>, flags |-> <<"q">>, san |-> <<"O", "-", "O", "-", "O">>],
        [from |-> <<"h", "1">>, to |-> <<"h", "2">>, flags |-> <<"n">>, san |-> <<"R", "h", "2">>],
        [from |-> <<"h", "1">>, to |-> <<"h", "3">>, flags |-> <<"n">>, san |-> <<"R", "h", "3">>],
        [from |-> <<"h", "1">>, to |-> <<"h", "4">>, flags |-> <<"n">>, san |-> <<"R", "h", "4">>],
        [from |-> <<"h", "1">>, to |-> <<"h", "5">>, flags |-> <<"n">>, san |-> <<"R", "h", "5">>],
        [from |-> <<"h", "1">>, to |-> <<"h", "6">>, flags |-> <<"n">>, san |-> <<"R", "h", "6">>],
        [from |-> <<"h", "1">>, to |-> <<"h", "7">>, flags |-> <<"n">>, san |-> <<"R", "h", "7">>],
        [from |-> <<"h", "1">>, to |-> <<"h", "8">>, flags |-> <<"n">>, san |-> <<"R", "h", "8", "+">>],
        [from |-> <<"h", "1">>, to |-> <<"g", "1">>, flags |-> <<"n">>, san |-> <<"R", "g", "1">>],
        [from |-> <<"h", "1">>, to |-> <<"f", "1">>, flags |-> <<"n">>, san |-> <<"R", "f", "1">>] >>]

\* 4k3/1P6/8/8/8/P7/8/R3K2R b KQ - 0 1
PositionBlackToMove ==
    [turn |-> "b",
     placed |-> {[square |-> <<"e", "8">>, color |-> "b", type |-> "k"],
                 [square |-> <<"b", "7">>, color |-> "w", type |-> "p"],
                 [square |-> <<"a", "3">>, color |-> "w", type |-> "p"],
                 [square |-> <<"a", "1">>, color |-> "w", type |-> "r"],
                 [square |-> <<"e", "1">>, color |-> "w", type |-> "k"],
                 [square |-> <<"h", "1">>, color |-> "w", type |-> "r"]},
     moves |-> <<
        [from |-> <<"e", "8">>, to |-> <<"d", "8">>, flags |-> <<"n">>, san |-> <<"K", "d", "8">>],
        [from |-> <<"e", "8">>, to |-> <<"f", "8">>, flags |-> <<"n">>, san |-> <<"K", "f", "8">>],
        [from |-> <<"e", "8">>, to |-> <<"d", "7">>, flags |-> <<"n">>, san |-> <<"K", "d", "7">>],
        [from |-> <<"e", "8">>, to |-> <<"e", "7">>, flags |-> <<"n">>, san |-> <<"K", "e", "7">>],
        [from |-> <<"e", "8">>, to |-> <<"f", "7">>, flags |-> <<"n">>, san |-> <<"K", "f", "7">>] >>]


\* rnbqkbnr/pppppppp/8/8/8/8/PPPPPPPP/RNBQKBNR w KQkq - 0 1
PositionStandard ==
    [turn |-> "w",
     placed |-> {[square |-> <<"a", "8">>, color |-> "b", type |-> "r"],
                 [square |-> <<"b", "8">>, color |-> "b", type |-> "n"],
                 [square |-> <<"c", "8">>, color |-> "b", type |-> "b"],
                 [square |-> <<"d", "8">>, color |-> "b", type |-> "q"],
                 [square |-> <<"e", "8">>, color |-> "b", type |-> "k"],
                 [square |-> <<"f", "8">>, color |-> "b", type |-> "b"],
                 [square |-> <<"g", "8">>, color |-> "b", type |-> "n"],
                 [square |-> <<"h", "8">>, color |-> "b", type |-> "r"],
                 [square |-> <<"a", "7">>, color |-> "b", type |-> "p"],
                 [square |-> <<"b", "7">>, color |-> "b", type |-> "p"],
                 [square |-> <<"c", "7">>, color |-> "b", type |-> "p"],
                 [square |-> <<"d", "7">>, color |-> "b", type |-> "p"],
                 [square |-> <<"e", "7">>, color |-> "b", type |-> "p"],
                 [square |-> <<"f", "7">>, color |-> "b", type |-> "p"],
                 [square |-> <<"g", "7">>, color |-> "b", type |-> "p"],
                 [square |-> <<"h", "7">>, color |-> "b", type |-> "p"],
                 [square |-> <<"a", "2">>, color |-> "w", type |-> "p"],
                 [square |-> <<"b", "2">>, color |-> "w", type |-> "p"],
                 [square |-> <<"c", "2">>, color |-> "w", type |-> "p"],
                 [square |-> <<"d", "2">>, color |-> "w", type |-> "p"],
                 [square |-> <<"e", "2">>, color |-> "w", type |-> "p"],
                 [square |-> <<"f", "2">>, color |-> "w", type |-> "p"],
                 [square |-> <<"g", "2">>, color |-> "w", type |-> "p"],
                 [square |-> <<"h", "2">>, color |-> "w", type |-> "p"],
                 [square |-> <<"a", "1">>, color |-> "w", type |-> "r"],
                 [square |-> <<"b", "1">>, color |-> "w", type |-> "n"],
                 [square |-> <<"c", "1">>, color |-> "w", type |-> "b"],
                 [square |-> <<"d", "1">>, color |-> "w", type |-> "q"],
                 [square |-> <<"e", "1">>, color |-> "w", type |-> "k"],
                 [square |-> <<"f", "1">>, color |-> "w", type |-> "b"],
                 [square |-> <<"g", "1">>, color |-> "w", type |-> "n"],
                 [square |-> <<"h", "1">>, color |-> "w", type |-> "r"]},
     moves |-> <<
        [from |-> <<"a", "2">>, to |-> <<"a", "3">>, flags |-> <<"n">>, san |-> <<"a", "3">>],
        [from |-> <<"a", "2">>, to |-> <<"a", "4">>, flags |-> <<"b">>, san |-> <<"a", "4">>],
        [from |-> <<"b", "2">>, to |-> <<"b", "3">>, flags |-> <<"n">>, san |-> <<"b", "3">>],
        [from |-> <<"b", "2">>, to |-> <<"b", "4">>, flags |-> <<"b">>, san |-> <<"b", "4">>],
        [from |-> <<"c", "2">>, to |-> <<"c", "3">>, flags |-> <<"n">>, san |-> <<"c", "3">>],
        [from |-> <<"c", "2">>, to |-> <<"c", "4">>, flags |-> <<"b">>, san |-> <<"c", "4">>],
        [from |-> <<"d", "2">>, to |-> <<"d", "3">>, flags |-> <<"n">>, san |-> <<"d", "3">>],
        [from |-> <<"d", "2">>, to |-> <<"d", "4">>, flags |-> <<"b">>, san |-> <<"d", "4">>],
        [from |-> <<"e", "2">>, to |-> <<"e", "3">>, flags |-> <<"n">>, san |-> <<"e", "3">>],
        [from |-> <<"e", "2">>, to |-> <<"e", "4">>, flags |-> <<"b">>, san |-> <<"e", "4">>],
        [from |-> <<"f", "2">>, to |-> <<"f", "3">>, flags |-> <<"n">>, san |-> <<"f", "3">>],
        [from |-> <<"f", "2">>, to |-> <<"f", "4">>, flags |-> <<"b">>, san |-> <<"f", "4">>],
        [from |-> <<"g", "2">>, to |-> <<"g", "3">>, flags |-> <<"n">>, san |-> <<"g", "3">>],
        [from |-> <<"g", "2">>, to |-> <<"g", "4">>, flags |-> <<"b">>, san |-> <<"g", "4">>],
        [from |-> <<"h", "2">>, to |-> <<"h", "3">>, flags |-> <<"n">>, san |-> <<"h", "3">>],
        [from |-> <<"h", "2">>, to |-> <<"h", "4">>, flags |-> <<"b">>, san |-> <<"h", "4">>],
        [from |-> <<"b", "1">>, to |-> <<"c", "3">>, flags |-> <<"n">>, san |-> <<"N", "c", "3">>],
        [from |-> <<"b", "1">>, to |-> <<"a", "3">>, flags |-> <<"n">>, san |-> <<"N", "a", "3">>],
        [from |-> <<"g", "1">>, to |-> <<"h", "3">>, flags |-> <<"n">>, san |-> <<"N", "h", "3">>],
        [from |-> <<"g", "1">>, to |-> <<"f", "3">>, flags |-> <<"n">>, san |-> <<"N", "f", "3">>] >>]

\* Chess960 position 1, as getChess960Position(1).fen gives it:
\* bbqnnrkr/pppppppp/8/8/8/8/PPPPPPPP/BBQNNRKR w KQkq - 0 1
PositionChess960 ==
    [turn |-> "w",
     placed |-> {[square |-> <<"a", "8">>, color |-> "b", type |-> "b"],
                 [square |-> <<"b", "8">>, color |-> "b", type |-> "b"],
                 [square |-> <<"c", "8">>, color |-> "b", type |-> "q"],
                 [square |-> <<"d", "8">>, color |-> "b", type |-> "n"],
                 [square |-> <<"e", "8">>, color |-> "b", type |-> "n"],
                 [square |-> <<"f", "8">>, color |-> "b", type |-> "r"],
                 [square |-> <<"g", "8">>, color |-> "b", type |-> "k"],
                 [square |-> <<"h", "8">>, color |-> "b", type |-> "r"],
                 [square |-> <<"a", "7">>, color |-> "b", type |-> "p"],
                 [square |-> <<"b", "7">>, color |-> "b", type |-> "p"],
                 [square |-> <<"c", "7">>, color |-> "b", type |-> "p"],
                 [square |-> <<"d", "7">>, color |-> "b", type |-> "p"],
                 [square |-> <<"e", "7">>, color |-> "b", type |-> "p"],
                 [square |-> <<"f", "7">>, color |-> "b", type |-> "p"],
                 [square |-> <<"g", "7">>, color |-> "b", type |-> "p"],
                 [square |-> <<"h", "7">>, color |-> "b", type |-> "p"],
                 [square |-> <<"a", "2">>, color |-> "w", type |-> "p"],
                 [square |-> <<"b", "2">>, color |-> "w", type |-> "p"],
                 [square |-> <<"c", "2">>, color |-> "w", type |-> "p"],
                 [square |-> <<"d", "2">>, color |-> "w", type |-> "p"],
                 [square |-> <<"e", "2">>, color |-> "w", type |-> "p"],
                 [square |-> <<"f", "2">>, color |-> "w", type |-> "p"],
                 [square |-> <<"g", "2">>, color |-> "w", type |-> "p"],
                 [square |-> <<"h", "2">>, color |-> "w", type |-> "p"],
                 [square |-> <<"a", "1">>, color |-> "w", type |-> "b"],
                 [square |-> <<"b", "1">>, color |-> "w", type |-> "b"],
                 [square |-> <<"c", "1">>, color |-> "w", type |-> "q"],
                 [square |-> <<"d", "1">>, color |-> "w", type |-> "n"],
                 [square |-> <<"e", "1">>, color |-> "w", type |-> "n"],
                 [square |-> <<"f", "1">>, color |-> "w", type |-> "r"],
                 [square |-> <<"g", "1">>, color |-> "w", type |-> "k"],
                 [square |-> <<"h", "1">>, color |-> "w", type |-> "r"]},
     moves |-> <<
        [from |-> <<"a", "2">>, to |-> <<"a", "3">>, flags |-> <<"n">>, san |-> <<"a", "3">>],
        [from |-> <<"a", "2">>, to |-> <<"a", "4">>, flags |-> <<"b">>, san |-> <<"a", "4">>],
        [from |-> <<"b", "2">>, to |-> <<"b", "3">>, flags |-> <<"n">>, san |-> <<"b", "3">>],
        [from |-> <<"b", "2">>, to |-> <<"b", "4">>, flags |-> <<"b">>, san |-> <<"b", "4">>],
        [from |-> <<"c", "2">>, to |-> <<"c", "3">>, flags |-> <<"n">>, san |-> <<"c", "3">>],
        [from |-> <<"c", "2">>, to |-> <<"c", "4">>, flags |-> <<"b">>, san |-> <<"c", "4">>],
        [from |-> <<"d", "2">>, to |-> <<"d", "3">>, flags |-> <<"n">>, san |-> <<"d", "3">>],
        [from |-> <<"d", "2">>, to |-> <<"d", "4">>, flags |-> <<"b">>, san |-> <<"d", "4">>],
        [from |-> <<"e", "2">>, to |-> <<"e", "3">>, flags |-> <<"n">>, san |-> <<"e", "3">>],
        [from |-> <<"e", "2">>, to |-> <<"e", "4">>, flags |-> <<"b">>, san |-> <<"e", "4">>],
        [from |-> <<"f", "2">>, to |-> <<"f", "3">>, flags |-> <<"n">>, san |-> <<"f", "3">>],
        [from |-> <<"f", "2">>, to |-> <<"f", "4">>, flags |-> <<"b">>, san |-> <<"f", "4">>],
        [from |-> <<"g", "2">>, to |-> <<"g", "3">>, flags |-> <<"n">>, san |-> <<"g", "3">>],
        [from |-> <<"g", "2">>, to |-> <<"g", "4">>, flags |-> <<"b">>, san |-> <<"g", "4">>],
        [from |-> <<"h", "2">>, to |-> <<"h", "3">>, flags |-> <<"n">>, san |-> <<"h", "3">>],
        [from |-> <<"h", "2">>, to |-> <<"h", "4">>, flags |-> <<"b">>, san |-> <<"h", "4">>],
        [from |-> <<"d", "1">>, to |-> <<"e", "3">>, flags |-> <<"n">>, san |-> <<"N", "e", "3">>],
        [from |-> <<"d", "1">>, to |-> <<"c", "3">>, flags |-> <<"n">>, san |-> <<"N", "c", "3">>],
        [from |-> <<"e", "1">>, to |-> <<"f", "3">>, flags |-> <<"n">>, san |-> <<"N", "f", "3">>],
        [from |-> <<"e", "1">>, to |-> <<"d", "3">>, flags |-> <<"n">>, san |-> <<"N", "d", "3">>] >>]


\* "start" is what chess.reset() leaves; the host's FEN strings are "white",
\* "black", "chess960" and "invalid", the last one rejected by the rules engine.
Positions ==
    [white |-> PositionWhiteToMove, black |-> PositionBlackToMove, start |-> PositionStandard,
     chess960 |-> PositionChess960]

ValidFens == {"white", "black"}

\* The FEN of a Chess960 starting arrangement whose king is not on the e-file.
Chess960Fens == {"chess960"}

\* chess.turn()
ChessTurn(pos) == Positions[pos].turn

\* chess.get(square): the piece with its colour as 'w' or 'b'; no piece is NullPiece.
ChessGet(pos, square) ==
    LET on == {pl \in Positions[pos].placed : pl.square = square}
    IN  IF on = {} THEN NullPiece
        ELSE LET pl == CHOOSE x \in on : TRUE IN [type |-> pl.type, color |-> pl.color]

\* chess.moves({ square, verbose: true })
ChessMoves(pos, square) == SelectSeq(Positions[pos].moves, LAMBDA m : m.from = square)

\* chess.board(): row 0 is rank 8.
ChessBoard(pos) ==
    [rank \in 0..7 |-> [file \in 0..7 |-> ChessGet(pos, rankFileToSquare(rank, file))]]

(***************************************************************************)
(* Chess960Board.tsx: the component                                        *)
(***************************************************************************)

NullSquare == <<>>
\* The selectedSquare prop when the host does not pass it.
UndefinedSquare == <<"undefined">>
NoDrag == [square |-> NullSquare, piece |-> NullPiece]
NoPromotion == [from |-> NullSquare, to |-> NullSquare]

\* parseFen: the rules engine's board with 'w' / 'b' spelled out.
parseFen(fenString) ==
    IF fenString \notin DOMAIN Positions THEN EmptyBoard ELSE
    LET position == ChessBoard(fenString)
    IN  [rank \in 0..7 |-> [file \in 0..7 |->
            IF position[rank][file] = NullPiece THEN NullPiece
            ELSE [type |-> position[rank][file].type,
                  color |-> IF position[rank][file].color = "w" THEN "white" ELSE "black"]]]

\* The defaults of the destructured props (currentPlayerColor "" is undefined).
DefaultProps ==
    [fen |-> "white", readOnly |-> FALSE, hasOnMove |-> TRUE,
     selectedSquare |-> UndefinedSquare, legalMoves |-> <<>>,
     currentPlayerColor |-> "", arrows |-> <<>>, hasOnArrowsChange |-> FALSE,
     enablePremove |-> FALSE, hasOnPromotionSelect |-> FALSE,
     showDestinations |-> TRUE, rookCastle |-> TRUE,
     moveInputMode |-> "both", eraseArrowsOnClick |-> FALSE,
     enableKeyboard |-> FALSE, hasOnKeyboardInput |-> FALSE,
     snapToValidMoves |-> TRUE, touchIgnoreRadius |-> 0, animationDuration |-> 200]

\* const selectedSquare = externalSelectedSquare !== undefined ? ... : internalSelectedSquare
SelectedSquareOf(p, internal) ==
    IF p.selectedSquare # UndefinedSquare THEN p.selectedSquare ELSE internal
selectedSquare == SelectedSquareOf(props, internalSelectedSquare)

isDragEnabled == props.moveInputMode \in {"drag", "both"}
isClickEnabled == props.moveInputMode \in {"click", "both"}

\* The body of the calculatedLegalMoves memo.
CalcLegalMoves(sel, readOnly, showDestinations, pos) ==
    IF sel = NullSquare \/ readOnly \/ ~showDestinations THEN <<>>
    ELSE LET moves == ChessMoves(pos, sel) IN [i \in 1..Len(moves) |-> moves[i].to]

\* useMemo: recomputed in the render after a step when a dependency
\* (selectedSquare, readOnly, showDestinations) differs from the last render's.
MemoLegalMoves(newProps, newInternal) ==
    LET sel == SelectedSquareOf(newProps, newInternal)
    IN  IF sel # selectedSquare \/ newProps.readOnly # props.readOnly
           \/ newProps.showDestinations # props.showDestinations
        THEN CalcLegalMoves(sel, newProps.readOnly, newProps.showDestinations, chess)
        ELSE calculatedLegalMoves

\* showDestinations ? (legalMoves.length > 0 ? legalMoves : calculatedLegalMoves) : []
effectiveLegalMoves ==
    IF props.showDestinations
    THEN (IF Len(props.legalMoves) > 0 THEN props.legalMoves ELSE calculatedLegalMoves)
    ELSE <<>>

\* array.includes(x)
Includes(arr, x) == \E i \in 1..Len(arr) : arr[i] = x

\* new Set(array), in insertion order
RECURSIVE SetOf(_)
SetOf(arr) ==
    IF Len(arr) = 0 THEN <<>>
    ELSE LET front == SetOf(SubSeq(arr, 1, Len(arr) - 1))
         IN  IF Includes(front, arr[Len(arr)]) THEN front ELSE Append(front, arr[Len(arr)])

\* The body of the arrowValidMoves memo.
CalcArrowValidMoves(start, snapToValidMoves, readOnly, pos) ==
    IF start = NullSquare \/ ~snapToValidMoves \/ readOnly THEN <<>>
    ELSE LET moves == ChessMoves(pos, start) IN SetOf([i \in 1..Len(moves) |-> moves[i].to])

\* useMemo: recomputed when arrowStart, snapToValidMoves or readOnly differs
\* from the last render's.
MemoArrowValidMoves(newProps, newStart) ==
    IF newStart # arrowStart \/ newProps.readOnly # props.readOnly
       \/ newProps.snapToValidMoves # props.snapToValidMoves
    THEN CalcArrowValidMoves(newStart, newProps.snapToValidMoves, newProps.readOnly, chess)
    ELSE arrowValidMoves

\* The body of the isPlayerTurn memo.
CalcIsPlayerTurn(p, pos) ==
    IF p.currentPlayerColor = "" THEN TRUE
    ELSE ChessTurn(pos) = (IF p.currentPlayerColor = "white" THEN "w" ELSE "b")

\* The callbacks a handler invoked, in order.
OnMove(from, to, promotion) ==
    [fn |-> "onMove", from |-> from, to |-> to, promotion |-> promotion, arrows |-> <<>>,
     input |-> <<>>]
OnArrowsChange(arrows) ==
    [fn |-> "onArrowsChange", from |-> NullSquare, to |-> NullSquare, promotion |-> "",
     arrows |-> arrows, input |-> <<>>]
OnKeyboardInput(input) ==
    [fn |-> "onKeyboardInput", from |-> NullSquare, to |-> NullSquare, promotion |-> "",
     arrows |-> <<>>, input |-> input]

\* What is remembered of the handler that ran last: its arguments, the
\* callbacks it invoked and, for handleSquareClick, the selectedSquare and
\* effectiveLegalMoves of the closure it ran in; for handleContextMenu, the
\* premove queue of the closure it ran in; for the FEN effect, the old grid it
\* handed to detectAndAnimateMoves (none when it did not call it).
Ran(op, rank, file, calls) ==
    [op |-> op, rank |-> rank, file |-> file, key |-> "", inField |-> FALSE,
     input |-> <<>>, calls |-> calls,
     selected |-> IF op \in {"click", "touch"} THEN selectedSquare ELSE NullSquare,
     legal |-> IF op \in {"click", "touch"} THEN effectiveLegalMoves ELSE <<>>,
     queued |-> IF op = "contextMenu" THEN premoves ELSE <<>>,
     oldBoard |-> <<>>]

\* isPawn && ((color === 'w' && targetRank === '8') || (color === 'b' && targetRank === '1'))
IsPromotion(sourcePiece, square) ==
    /\ sourcePiece.type = "p"
    /\ \/ sourcePiece.color = "w" /\ square[2] = "8"
       \/ sourcePiece.color = "b" /\ square[2] = "1"

\* array.find(pred), given the indices that satisfy pred: the first, 0 when none.
FirstIndex(hits) ==
    IF hits = {} THEN 0 ELSE CHOOSE i \in hits : \A j \in hits : i <= j

\* arrows.find(arrow => arrow.startSquare === square || arrow.endSquare === square):
\* the index of the first such arrow, 0 when none.
FindClickedArrow(arrows, square) ==
    FirstIndex({i \in 1..Len(arrows) :
                  arrows[i].startSquare = square \/ arrows[i].endSquare = square})

\* arrows.filter(arrow => arrow !== clickedArrow)
WithoutArrow(arrows, k) ==
    [i \in 1..(Len(arrows) - 1) |-> IF i < k THEN arrows[i] ELSE arrows[i + 1]]

\* The gesture that takes the first castling move whatever the rook's side.
RookCastleAmong_FirstCastling(moves, kingSquare, file) ==
    LET castlingMove == FirstIndex({i \in 1..Len(moves) :
                         Includes(moves[i].flags, "k") \/ Includes(moves[i].flags, "q")})
    IN  IF castlingMove = 0
        THEN [from |-> NullSquare, to |-> NullSquare]
        ELSE [from |-> kingSquare, to |-> moves[castlingMove].to]

\* The gesture on a king at kingSquare with the moves chess.moves gives it:
\* castlingMove is the first castling move, castleMove the first one to the
\* side of the clicked rook.
RookCastleAmong(moves, kingSquare, file) ==
    LET castlingMove == FirstIndex({i \in 1..Len(moves) :
                         Includes(moves[i].flags, "k") \/ Includes(moves[i].flags, "q")})
        kingFile == charCodeAt0(kingSquare) - 97
        isKingside == file > kingFile
        castleMove == FirstIndex({i \in 1..Len(moves) :
                         LET isKingSide == charCodeAt0(moves[i].to) > charCodeAt0(moves[i].from)
                         IN  \/ isKingside /\ isKingSide /\ Includes(moves[i].flags, "k")
                             \/ ~isKingside /\ ~isKingSide /\ Includes(moves[i].flags, "q")})
    IN  IF castlingMove = 0 \/ castleMove = 0
        THEN [from |-> NullSquare, to |-> NullSquare]
        ELSE [from |-> kingSquare, to |-> moves[castleMove].to]

\* chess.moves({ square: kingSquare, verbose: true }) handed to the search above.
RookCastleFrom(kingSquare, file) ==
    RookCastleAmong(ChessMoves(chess, kingSquare), kingSquare, file)

\* The rook-castling gesture: the king's square and the castling move's
\* target, or NullSquare twice when the gesture does not apply.
RookCastleMove(piece, file) ==
    LET pieceColor == piece.color
        kingRank == IF pieceColor = "white" THEN 7 ELSE 0
        kingFiles == {f \in 0..7 :
                        LET testPiece == ChessGet(chess, rankFileToSquare(kingRank, f))
                        IN  /\ testPiece.type = "k"
                            /\ testPiece.color = (IF pieceColor = "white" THEN "w" ELSE "b")}
    IN  IF kingFiles = {} THEN [from |-> NullSquare, to |-> NullSquare]
        ELSE RookCastleFrom(
                rankFileToSquare(kingRank, CHOOSE f \in kingFiles : \A g \in kingFiles : f <= g),
                file)

\* effectiveLegalMoves.length === 0 || effectiveLegalMoves.includes(square)
IsLegalTarget_Any(square) == TRUE
IsLegalTarget(square) ==
    Len(effectiveLegalMoves) = 0 \/ Includes(effectiveLegalMoves, square)

\* !piece
NoPiece_Never(piece) == FALSE
NoPiece(piece) == piece = NullPiece

MaxPremoves == 1

\* The squares the pointer events of the model land on.
BoardCells ==
    {[rank |-> 7, file |-> 0], [rank |-> 7, file |-> 4], [rank |-> 7, file |-> 7],
     [rank |-> 7, file |-> 6], [rank |-> 6, file |-> 0], [rank |-> 5, file |-> 0],
     [rank |-> 1, file |-> 1], [rank |-> 0, file |-> 1], [rank |-> 0, file |-> 4]}

\* With premoves enabled the queue multiplies the states: the pointer events
\* of those mounts land on the two kings' squares and a3.
PremoveCells ==
    {[rank |-> 7, file |-> 4], [rank |-> 0, file |-> 4], [rank |-> 5, file |-> 0]}

PointerCells == IF props.enablePremove THEN PremoveCells ELSE BoardCells

Sq(r, f) == rankFileToSquare(r, f)

\* The arrows the host draws: a2-a3, a3-b7 and e1-a2.
BoardArrows ==
    <<[startSquare |-> Sq(6, 0), endSquare |-> Sq(5, 0)],
      [startSquare |-> Sq(5, 0), endSquare |-> Sq(1, 1)],
      [startSquare |-> Sq(7, 4), endSquare |-> Sq(6, 0)]>>

\* The ways the host mounts the board.
BoardConfigs ==
    {DefaultProps,
     [DefaultProps EXCEPT !.moveInputMode = "drag"],
     [DefaultProps EXCEPT !.moveInputMode = "click"],
     [DefaultProps EXCEPT !.showDestinations = FALSE],
     [DefaultProps EXCEPT !.legalMoves = <<Sq(5, 0), Sq(0, 1)>>],
     [DefaultProps EXCEPT !.legalMoves = <<Sq(5, 0), Sq(0, 1)>>, !.showDestinations = FALSE],
     [DefaultProps EXCEPT !.rookCastle = FALSE],
     [DefaultProps EXCEPT !.hasOnMove = FALSE],
     [DefaultProps EXCEPT !.selectedSquare = NullSquare],
     [DefaultProps EXCEPT !.eraseArrowsOnClick = TRUE, !.hasOnArrowsChange = TRUE,
                          !.arrows = BoardArrows],
     [DefaultProps EXCEPT !.eraseArrowsOnClick = TRUE, !.hasOnArrowsChange = TRUE,
                          !.arrows = BoardArrows, !.hasOnMove = FALSE],
     [DefaultProps EXCEPT !.enablePremove = TRUE, !.currentPlayerColor = "black"],
     [DefaultProps EXCEPT !.currentPlayerColor = "white"],
     [DefaultProps EXCEPT !.hasOnPromotionSelect = TRUE]}

\* The state after the mount: the initial values of useState, then the FEN
\* effect's first run and the first evaluation of the memos.
InitBoard ==
    /\ GenAtRest /\ SqAtRest /\ DiffAtRest
    /\ \E cfg \in BoardConfigs, f \in ValidFens :
          /\ props = [cfg EXCEPT !.fen = f]
          /\ chess = f
          /\ boardState = parseFen(f)
          /\ previousBoardState = parseFen(f)
          /\ calculatedLegalMoves = CalcLegalMoves(cfg.selectedSquare, cfg.readOnly, cfg.showDestinations, f)
          /\ isPlayerTurn = CalcIsPlayerTurn(cfg, f)
    /\ internalSelectedSquare = NullSquare
    /\ draggedPiece = NoDrag
    /\ dragOverSquare = NullSquare
    /\ premoves = <<>>
    /\ showPromotionDialog = FALSE
    /\ pendingPromotion = NoPromotion
    /\ last = [op |-> "mount", rank |-> 0, file |-> 0, key |-> "", inField |-> FALSE,
               input |-> <<>>, calls |-> <<>>, selected |-> NullSquare, legal |-> <<>>,
               queued |-> <<>>, oldBoard |-> <<>>]
    /\ lifecycle = "mounted"
    /\ chessHistory = <<>>
    /\ keyboardInput = <<>>
    /\ arrowStart = NullSquare
    /\ isDrawingArrow = FALSE
    /\ rightClickedSquares = {}
    /\ arrowValidMoves = <<>>
    /\ animatingPieces = EmptyMap
    /\ capturedPieces = EmptyMap
    /\ timers = 0
    /\ typed = <<>>

\* What a handler leaves for the next render: the selection it set, the memo
\* recomputed from it, and the record of the handler.
Rendered(op, rank, file, calls, newInternal) ==
    /\ internalSelectedSquare' =
          (IF props.selectedSquare = UndefinedSquare THEN newInternal ELSE internalSelectedSquare)
    /\ calculatedLegalMoves' =
          MemoLegalMoves(props, IF props.selectedSquare = UndefinedSquare
                                THEN newInternal ELSE internalSelectedSquare)
    /\ last' = Ran(op, rank, file, calls)
    /\ UNCHANGED <<props, chess, boardState, previousBoardState, isPlayerTurn>>
    /\ UNCHANGED <<lifecycle, animatingPieces, capturedPieces, timers>>
    /\ BoardFrame

\* The keyboard buffer, the arrow being drawn and the highlights are left alone.
PointerOnly ==
    UNCHANGED <<keyboardInput, arrowStart, isDrawingArrow, rightClickedSquares, arrowValidMoves>>

\* const testChess = new Chess(chess.fen()): the handle the check probe moves on.
TestChessHandle_Shared == "chess"
TestChessHandle == "testChess"

\* testChess.move({ from, to }) throws unless a legal move that is not a
\* promotion goes from -> to.
ProbeMoveIsMade(pos, from, to) ==
    \E i \in 1..Len(Positions[pos].moves) :
        /\ Positions[pos].moves[i].from = from
        /\ Positions[pos].moves[i].to = to
        /\ ~Includes(Positions[pos].moves[i].flags, "p")

\* The history of the component's handle after the check probe.
HistoryAfterProbe(from, to) ==
    LET handles == [h \in {"chess", "testChess"} |-> IF h = "chess" THEN chessHistory ELSE <<>>]
        probed == IF ProbeMoveIsMade(chess, from, to)
                  THEN [handles EXCEPT ![TestChessHandle] = Append(@, [from |-> from, to |-> to])]
                  ELSE handles
    IN  probed["chess"]

\* handleSquareClick(rank, file), reached from a click or from handleTouchStart
SquareClicked(op, rank, file) ==
    LET square == rankFileToSquare(rank, file)
        clickedArrow == FindClickedArrow(props.arrows, square)
        piece == PieceAt(boardState, rank, file)
        castle == RookCastleMove(piece, file)
        idle(calls) ==
            /\ Rendered(op, rank, file, calls, internalSelectedSquare)
            /\ UNCHANGED <<draggedPiece, dragOverSquare, premoves, showPromotionDialog, pendingPromotion>>
            /\ UNCHANGED chessHistory
            /\ PointerOnly
        moving(calls, history) ==
            /\ Rendered(op, rank, file, calls, NullSquare)
            /\ UNCHANGED <<draggedPiece, dragOverSquare, premoves, showPromotionDialog, pendingPromotion>>
            /\ chessHistory' = history
            /\ PointerOnly
        selecting(calls, newInternal) ==
            /\ Rendered(op, rank, file, calls, newInternal)
            /\ UNCHANGED <<draggedPiece, dragOverSquare, premoves, showPromotionDialog, pendingPromotion>>
            /\ UNCHANGED chessHistory
            /\ PointerOnly
    IN  IF props.readOnly \/ ~props.hasOnMove THEN idle(<<>>)
        ELSE IF /\ props.eraseArrowsOnClick /\ Len(props.arrows) > 0 /\ props.hasOnArrowsChange
                /\ clickedArrow # 0
        THEN idle(<<OnArrowsChange(WithoutArrow(props.arrows, clickedArrow))>>)
        ELSE IF ~isClickEnabled THEN idle(<<>>)
        ELSE IF selectedSquare # NullSquare
        THEN IF selectedSquare # square /\ IsLegalTarget(square)
             THEN moving(<<OnMove(selectedSquare, square, "")>>,
                         HistoryAfterProbe(selectedSquare, square))
             ELSE selecting(<<>>, NullSquare)
        ELSE IF NoPiece(piece) THEN idle(<<>>)
        ELSE IF /\ props.rookCastle /\ piece.type = "r"
                /\ (props.currentPlayerColor = "" \/ piece.color = props.currentPlayerColor)
                /\ castle.from # NullSquare
        THEN selecting(<<OnMove(castle.from, castle.to, "")>>, NullSquare)
        ELSE selecting(<<>>, square)

\* handleSquareClick(rank, file)
handleSquareClick(rank, file) == SquareClicked("click", rank, file)

HandleSquareClick ==
    /\ props # <<>>
    /\ \E c \in PointerCells : handleSquareClick(c.rank, c.file)

\* handleDragStart(e, rank, file)
handleDragStart(rank, file) ==
    LET square == rankFileToSquare(rank, file)
        piece == PieceAt(boardState, rank, file)
        rejected ==
            /\ Rendered("dragStart", rank, file, <<>>, internalSelectedSquare)
            /\ UNCHANGED <<draggedPiece, dragOverSquare, premoves, showPromotionDialog, pendingPromotion>>
            /\ UNCHANGED chessHistory
            /\ PointerOnly
    IN  IF props.readOnly THEN rejected
        ELSE IF NoPiece(piece) THEN rejected
        ELSE IF /\ props.currentPlayerColor # ""
                /\ piece.color # props.currentPlayerColor
                /\ (~props.enablePremove \/ isPlayerTurn)
        THEN rejected
        ELSE /\ draggedPiece' = [square |-> square, piece |-> piece]
             /\ Rendered("dragStart", rank, file, <<>>, square)
             /\ UNCHANGED <<dragOverSquare, premoves, showPromotionDialog, pendingPromotion>>
             /\ UNCHANGED chessHistory
             /\ PointerOnly

HandleDragStart ==
    /\ props # <<>>
    /\ \E c \in PointerCells : handleDragStart(c.rank, c.file)

\* handleDrop(e, rank, file)
handleDrop(rank, file) ==
    LET targetSquare == rankFileToSquare(rank, file)
        sourcePiece == ChessGet(chess, draggedPiece.square)
        isPromotion == IsPromotion(sourcePiece, targetSquare)
        moves == ChessMoves(chess, draggedPiece.square)
        isValid == \E i \in 1..Len(moves) : moves[i].to = targetSquare
        promotionPiece == IF isPromotion THEN "q" ELSE ""
    IN  IF draggedPiece = NoDrag
        THEN /\ Rendered("drop", rank, file, <<>>, internalSelectedSquare)
             /\ UNCHANGED <<draggedPiece, dragOverSquare, premoves, showPromotionDialog, pendingPromotion>>
             /\ UNCHANGED chessHistory
             /\ PointerOnly
        ELSE IF ~isValid /\ ~props.enablePremove
        THEN /\ draggedPiece' = NoDrag
             /\ dragOverSquare' = NullSquare
             /\ Rendered("drop", rank, file, <<>>, internalSelectedSquare)
             /\ UNCHANGED <<premoves, showPromotionDialog, pendingPromotion>>
             /\ UNCHANGED chessHistory
             /\ PointerOnly
        ELSE IF isPromotion /\ props.hasOnPromotionSelect
        THEN /\ pendingPromotion' = [from |-> draggedPiece.square, to |-> targetSquare]
             /\ showPromotionDialog' = TRUE
             /\ draggedPiece' = NoDrag
             /\ dragOverSquare' = NullSquare
             /\ Rendered("drop", rank, file, <<>>, internalSelectedSquare)
             /\ UNCHANGED premoves
             /\ UNCHANGED chessHistory
             /\ PointerOnly
        ELSE /\ IF props.hasOnMove /\ props.enablePremove /\ ~isPlayerTurn
                THEN /\ Len(premoves) < MaxPremoves
                     /\ premoves' = Append(premoves, [from |-> draggedPiece.square, to |-> targetSquare])
                     /\ Rendered("drop", rank, file, <<>>, NullSquare)
                     /\ UNCHANGED chessHistory
                ELSE /\ premoves' = premoves
                     /\ Rendered("drop", rank, file,
                                 IF props.hasOnMove
                                 THEN <<OnMove(draggedPiece.square, targetSquare, promotionPiece)>>
                                 ELSE <<>>,
                                 NullSquare)
                     /\ chessHistory' = IF props.hasOnMove
                                        THEN HistoryAfterProbe(draggedPiece.square, targetSquare)
                                        ELSE chessHistory
             /\ draggedPiece' = NoDrag
             /\ dragOverSquare' = NullSquare
             /\ UNCHANGED <<showPromotionDialog, pendingPromotion>>
             /\ PointerOnly

HandleDrop ==
    /\ props # <<>>
    /\ \E c \in PointerCells : handleDrop(c.rank, c.file)

\* handleDragEnd()
HandleDragEnd ==
    /\ props # <<>>
    /\ draggedPiece' = NoDrag
    /\ dragOverSquare' = NullSquare
    /\ Rendered("dragEnd", 0, 0, <<>>, internalSelectedSquare)
    /\ UNCHANGED <<premoves, showPromotionDialog, pendingPromotion>>
    /\ UNCHANGED chessHistory
    /\ PointerOnly

\* The host renders the board with readOnly switched.
HostSetsReadOnly ==
    /\ props # <<>>
    /\ props' = [props EXCEPT !.readOnly = ~props.readOnly]
    /\ calculatedLegalMoves' = MemoLegalMoves(props', internalSelectedSquare)
    /\ arrowValidMoves' = MemoArrowValidMoves(props', arrowStart)
    /\ last' = Ran("readOnly", 0, 0, <<>>)
    /\ UNCHANGED <<chess, boardState, previousBoardState, internalSelectedSquare, draggedPiece,
                   dragOverSquare, premoves, showPromotionDialog, pendingPromotion, isPlayerTurn>>
    /\ UNCHANGED <<lifecycle, chessHistory, keyboardInput, arrowStart, isDrawingArrow,
                   rightClickedSquares, animatingPieces, capturedPieces, timers>>
    /\ BoardFrame

\* The host that controls the selection renders the board with another one.
HostSetsSelectedSquare ==
    /\ props # <<>>
    /\ props.selectedSquare # UndefinedSquare
    /\ \E sq \in {NullSquare} \cup {Sq(c.rank, c.file) : c \in BoardCells} :
          /\ sq # props.selectedSquare
          /\ props' = [props EXCEPT !.selectedSquare = sq]
    /\ calculatedLegalMoves' = MemoLegalMoves(props', internalSelectedSquare)
    /\ last' = Ran("selectedSquare", 0, 0, <<>>)
    /\ UNCHANGED <<chess, boardState, previousBoardState, internalSelectedSquare, draggedPiece,
                   dragOverSquare, premoves, showPromotionDialog, pendingPromotion, isPlayerTurn>>
    /\ UNCHANGED engineVars
    /\ BoardFrame

NextBoard ==
    \/ HandleSquareClick
    \/ HandleDragStart
    \/ HandleDrop
    \/ HandleDragEnd
    \/ HostSetsReadOnly
    \/ HostSetsSelectedSquare

SpecBoard == InitBoard /\ [][NextBoard]_vars

(***************************************************************************)
(* Click-to-move and drag-start properties                                 *)
(***************************************************************************)

ClickedSquare == rankFileToSquare(last.rank, last.file)

OnMoveCalls == SelectSeq(last.calls, LAMBDA c : c.fn = "onMove")

\* The last step was a click on a square other than the selected one, with a
\* non-empty effective legal-destination set.
ClickWithSelection ==
    /\ last.op = "click"
    /\ last.selected # NullSquare
    /\ Len(last.legal) > 0
    /\ ClickedSquare # last.selected

\* The click was taken as click-to-move input: the board is not read-only, the
\* host supplied onMove, click input is enabled, and the click did not erase
\* an arrow.  (A click leaves the props as they were.)
ClickTakenAsMoveInput ==
    /\ ~props.readOnly
    /\ props.hasOnMove
    /\ isClickEnabled
    /\ ~(/\ props.eraseArrowsOnClick /\ props.hasOnArrowsChange
         /\ FindClickedArrow(props.arrows, ClickedSquare) # 0)

\* C9 as stated: with a square selected and a non-empty effective
\* legal-destination set, a click on a different square outside the set never
\* invokes onMove and clears the internal selection, and a click on a square
\* of the set invokes onMove(selected, clicked) exactly once.
C9_ClickToMove_AsStated ==
    ClickWithSelection =>
        IF Includes(last.legal, ClickedSquare)
        THEN OnMoveCalls = <<OnMove(last.selected, ClickedSquare, "")>>
        ELSE OnMoveCalls = <<>> /\ internalSelectedSquare = NullSquare

\* C9, amended: with a square selected and a non-empty effective
\* legal-destination set, a click on a different square outside the set never
\* invokes onMove; and when the click is taken as click-to-move input (not
\* read-only, onMove supplied, click input enabled, no arrow erased by it) the
\* internal selection is cleared and a click on a square of the set invokes
\* onMove(selected, clicked) exactly once.
C9_ClickToMove ==
    ClickWithSelection =>
        /\ ~Includes(last.legal, ClickedSquare) => OnMoveCalls = <<>>
        /\ ClickTakenAsMoveInput =>
              /\ internalSelectedSquare = NullSquare
              /\ Includes(last.legal, ClickedSquare) =>
                    OnMoveCalls = <<OnMove(last.selected, ClickedSquare, "")>>

\* A click, taken as move input, on a square outside the non-empty set.
C9_Witness ==
    /\ ClickWithSelection
    /\ ClickTakenAsMoveInput
    /\ ~Includes(last.legal, ClickedSquare)
    /\ last.calls = <<>>
    /\ internalSelectedSquare = NullSquare

\* C10: a drag-start on an empty square does not enter the Dragging state,
\* invokes no callback and leaves the selection and the premove queue as they
\* were; and a drop that finds no dragged piece invokes no callback and queues
\* no premove.
C10_EmptyDragStartRejected ==
    [][/\ (last'.op = "dragStart" /\ PieceAt(boardState, last'.rank, last'.file) = NullPiece) =>
            /\ draggedPiece' = draggedPiece
            /\ internalSelectedSquare' = internalSelectedSquare
            /\ selectedSquare' = selectedSquare
            /\ premoves' = premoves
            /\ last'.calls = <<>>
       /\ (last'.op = "drop" /\ draggedPiece = NoDrag) =>
            /\ draggedPiece' = NoDrag
            /\ premoves' = premoves
            /\ last'.calls = <<>>]_vars

\* A drag-start on an empty square of a board that is not read-only, with a
\* square selected: nothing is dragged and the selection is still there.
C10_Witness ==
    /\ last.op = "dragStart"
    /\ PieceAt(boardState, last.rank, last.file) = NullPiece
    /\ ~props.readOnly
    /\ draggedPiece = NoDrag
    /\ internalSelectedSquare # NullSquare
    /\ internalSelectedSquare # rankFileToSquare(last.rank, last.file)

(***************************************************************************)
(* Keyboard move input                                                     *)
(***************************************************************************)

FileChars == {"a", "b", "c", "d", "e", "f", "g", "h"}
RankChars == {"1", "2", "3", "4", "5", "6", "7", "8"}

\* /^[a-h0-8o-]$/i.test(e.key)
AcceptedKeys ==
    FileChars \cup RankChars \cup {"0", "o", "-"}
        \cup {"A", "B", "C", "D", "E", "F", "G", "H", "O"}

\* toLowerCase of one character of a key or of a SAN string
JsLowerChar(c) ==
    CASE c = "A" -> "a" [] c = "B" -> "b" [] c = "C" -> "c" [] c = "D" -> "d"
      [] c = "E" -> "e" [] c = "F" -> "f" [] c = "G" -> "g" [] c = "H" -> "h"
      [] c = "O" -> "o" [] OTHER -> LowerOf(c)

JsToLowerCase(str) == [i \in 1..Len(str) |-> JsLowerChar(str[i])]

\* String.prototype.trim
RECURSIVE trim(_)
trim(str) ==
    IF Len(str) = 0 THEN str
    ELSE IF str[1] = " " THEN trim(Tail(str))
    ELSE IF str[Len(str)] = " " THEN trim(SubSeq(str, 1, Len(str) - 1))
    ELSE str

\* /^[a-h][1-8][a-h][1-8]$/.test(input)
IsUci_Never(input) == FALSE
IsUci(input) ==
    /\ Len(input) = 4
    /\ input[1] \in FileChars /\ input[2] \in RankChars
    /\ input[3] \in FileChars /\ input[4] \in RankChars

NullMove == [from |-> NullSquare, to |-> NullSquare]

\* parseKeyboardMove after input = input.trim().toLowerCase()
ParseTrimmed(input, moves) ==
    LET rank == IF ChessTurn(chess) = "w" THEN 7 ELSE 0
        move == FirstIndex({i \in 1..Len(moves) : JsToLowerCase(moves[i].san) = input})
    IN  IF IsUci(input)
        THEN [from |-> SubSeq(input, 1, 2), to |-> SubSeq(input, 3, 4)]
        ELSE IF input = <<"o", "-", "o">> \/ input = <<"0", "-", "0">>
        THEN [from |-> rankFileToSquare(rank, 4), to |-> rankFileToSquare(rank, 7)]
        ELSE IF input = <<"o", "-", "o", "-", "o">> \/ input = <<"0", "-", "0", "-", "0">>
        THEN [from |-> rankFileToSquare(rank, 4), to |-> rankFileToSquare(rank, 0)]
        ELSE IF move # 0
        THEN [from |-> moves[move].from, to |-> moves[move].to]
        ELSE NullMove

\* parseKeyboardMove(input): { from, to }, or NullMove for null
parseKeyboardMove(input0) ==
    ParseTrimmed(JsToLowerCase(trim(input0)), Positions[chess].moves)

\* What handleKeyDown leaves: the buffer, whether it clears the selection,
\* and the callbacks it invoked.
KeyHandled(input, clear, calls) == [input |-> input, clear |-> clear, calls |-> calls]

\* The Enter branch, given what parseKeyboardMove makes of the buffer.
EnterPressed(move) ==
    IF move # NullMove /\ props.hasOnMove
    THEN KeyHandled(<<>>, FALSE, <<OnMove(move.from, move.to, "")>>)
    ELSE KeyHandled(keyboardInput, FALSE, <<>>)

\* The end of the accepted-key branch: onKeyboardInput sees the buffer as
\* the auto-submit left it.
InputReported(left, calls) ==
    KeyHandled(left, FALSE,
               calls \o (IF props.hasOnKeyboardInput THEN <<OnKeyboardInput(left)>> ELSE <<>>))

\* The accepted-key branch after the append: auto-submit when the buffer is
\* four characters of UCI, parseKeyboardMove gives a move and onMove exists.
KeyAppended(appended, move) ==
    IF Len(appended) = 4 /\ IsUci(appended) /\ move # NullMove /\ props.hasOnMove
    THEN InputReported(<<>>, <<OnMove(move.from, move.to, "")>>)
    ELSE InputReported(appended, <<>>)

\* keyboardInputRef.current += e.key.toLowerCase(), and what follows
KeyAccepted(appended) == KeyAppended(appended, parseKeyboardMove(appended))

\* handleKeyDown(e) of the keyboard effect
handleKeyDown(key, inField) ==
    IF inField THEN KeyHandled(keyboardInput, FALSE, <<>>)
    ELSE IF key = "Escape" THEN KeyHandled(<<>>, TRUE, <<>>)
    ELSE IF key = "Backspace"
    THEN KeyHandled(SubSeq(keyboardInput, 1, Len(keyboardInput) - 1), FALSE, <<>>)
    ELSE IF key = "Enter" THEN EnterPressed(parseKeyboardMove(keyboardInput))
    ELSE IF key \in AcceptedKeys THEN KeyAccepted(Append(keyboardInput, JsLowerChar(key)))
    ELSE KeyHandled(keyboardInput, FALSE, <<>>)

\* The keyboard effect attaches its listener only while this holds.
KeyboardListening == props.enableKeyboard /\ ~props.readOnly

MaxInput == 5

\* The state after a keydown: kb is what the keyboard listener did, and the
\* listener of the escape effect has run after it.
KeyDownApplied(key, inField, kb, newInternal, newStart) ==
    /\ Len(kb.input) <= MaxInput
    /\ keyboardInput' = kb.input
    /\ internalSelectedSquare' = newInternal
    /\ calculatedLegalMoves' = MemoLegalMoves(props, newInternal)
    /\ arrowStart' = newStart
    /\ isDrawingArrow' = (IF key = "Escape" THEN FALSE ELSE isDrawingArrow)
    /\ rightClickedSquares' = (IF key = "Escape" THEN {} ELSE rightClickedSquares)
    /\ arrowValidMoves' = MemoArrowValidMoves(props, newStart)
    /\ last' = [Ran("keyDown", 0, 0,
                    kb.calls \o (IF key = "Escape" /\ props.hasOnArrowsChange
                                 THEN <<OnArrowsChange(<<>>)>> ELSE <<>>))
                EXCEPT !.key = key, !.inField = inField, !.input = keyboardInput]
    /\ UNCHANGED <<props, chess, boardState, previousBoardState, isPlayerTurn, draggedPiece,
                   dragOverSquare, premoves, showPromotionDialog, pendingPromotion>>
    /\ UNCHANGED <<lifecycle, chessHistory, animatingPieces, capturedPieces, timers>>
    /\ UNCHANGED <<genVars, sqVars, diffVars>>

\* The keyboard effect's listener, when attached.
KeyboardListener(key, inField) ==
    IF KeyboardListening THEN handleKeyDown(key, inField)
    ELSE KeyHandled(keyboardInput, FALSE, <<>>)

\* A keydown event on the window: the keyboard effect's listener, when
\* attached, and then the listener of the escape effect.
WindowKeyDown(key, inField) ==
    KeyDownApplied(key, inField, KeyboardListener(key, inField),
        IF KeyboardListener(key, inField).clear /\ props.selectedSquare = UndefinedSquare
        THEN NullSquare ELSE internalSelectedSquare,
        IF key = "Escape" THEN NullSquare ELSE arrowStart)

\* A keydown event whose key is not recorded in the run of typed keys.
KeyDownEvent(key, inField) == WindowKeyDown(key, inField) /\ UNCHANGED typed

(***************************************************************************)
(* Touch, drag-over and right-click                                        *)
(***************************************************************************)

\* A pointer handler that returns without setting any state.
Ignored(op, rank, file) ==
    /\ Rendered(op, rank, file, <<>>, internalSelectedSquare)
    /\ UNCHANGED <<draggedPiece, dragOverSquare, premoves, showPromotionDialog, pendingPromotion>>
    /\ UNCHANGED chessHistory
    /\ PointerOnly

\* handleTouchStart(e, rank, file); outside is what shouldIgnoreTouch finds
\* when the touch lies farther from the centre than the ignore radius.
handleTouchStart(rank, file, outside) ==
    IF props.readOnly \/ ~props.hasOnMove THEN Ignored("touch", rank, file)
    ELSE IF props.touchIgnoreRadius # 0 /\ outside THEN Ignored("touch", rank, file)
    ELSE SquareClicked("touch", rank, file)

\* handleDragOver(e, rank, file)
handleDragOver(rank, file) ==
    /\ dragOverSquare' = rankFileToSquare(rank, file)
    /\ Rendered("dragOver", rank, file, <<>>, internalSelectedSquare)
    /\ UNCHANGED <<draggedPiece, premoves, showPromotionDialog, pendingPromotion>>
    /\ UNCHANGED chessHistory
    /\ PointerOnly

\* onDragLeave={() => setDragOverSquare(null)}
handleDragLeave(rank, file) ==
    /\ dragOverSquare' = NullSquare
    /\ Rendered("dragLeave", rank, file, <<>>, internalSelectedSquare)
    /\ UNCHANGED <<draggedPiece, premoves, showPromotionDialog, pendingPromotion>>
    /\ UNCHANGED chessHistory
    /\ PointerOnly

\* The arrow a second right-click reports (its colour is a constant of the
\* rendering and is left out).
NewArrow(start, end) == [startSquare |-> start, endSquare |-> end]

\* premoves.length > 0
HasPremoves_Never(queue) == FALSE
HasPremoves(queue) == Len(queue) > 0

\* handleContextMenu(e, rank, file)
handleContextMenu(rank, file) ==
    LET square == rankFileToSquare(rank, file)
        endSquare == IF /\ props.snapToValidMoves /\ dragOverSquare # NullSquare
                        /\ Includes(arrowValidMoves, dragOverSquare)
                     THEN dragOverSquare ELSE square
        rest == /\ UNCHANGED <<draggedPiece, showPromotionDialog, pendingPromotion>>
                /\ UNCHANGED <<chessHistory, keyboardInput>>
    IN  IF props.readOnly THEN Ignored("contextMenu", rank, file)
        ELSE IF HasPremoves(premoves)
        THEN /\ premoves' = <<>>
             /\ Rendered("contextMenu", rank, file, <<>>, internalSelectedSquare)
             /\ UNCHANGED <<dragOverSquare, arrowStart, isDrawingArrow, rightClickedSquares,
                            arrowValidMoves>>
             /\ rest
        ELSE IF props.hasOnArrowsChange
        THEN IF arrowStart = NullSquare
             THEN /\ arrowStart' = square
                  /\ isDrawingArrow' = TRUE
                  /\ dragOverSquare' = square
                  /\ arrowValidMoves' = MemoArrowValidMoves(props, square)
                  /\ Rendered("contextMenu", rank, file, <<>>, internalSelectedSquare)
                  /\ UNCHANGED <<premoves, rightClickedSquares>>
                  /\ rest
             ELSE /\ arrowStart' = NullSquare
                  /\ isDrawingArrow' = FALSE
                  /\ dragOverSquare' = NullSquare
                  /\ arrowValidMoves' = MemoArrowValidMoves(props, NullSquare)
                  /\ Rendered("contextMenu", rank, file,
                              IF arrowStart # endSquare
                              THEN <<OnArrowsChange(Append(props.arrows, NewArrow(arrowStart, endSquare)))>>
                              ELSE <<>>,
                              internalSelectedSquare)
                  /\ UNCHANGED <<premoves, rightClickedSquares>>
                  /\ rest
        ELSE /\ rightClickedSquares' =
                    (IF square \in rightClickedSquares
                     THEN rightClickedSquares \ {square}
                     ELSE rightClickedSquares \cup {square})
             /\ Rendered("contextMenu", rank, file, <<>>, internalSelectedSquare)
             /\ UNCHANGED <<premoves, dragOverSquare, arrowStart, isDrawingArrow, arrowValidMoves>>
             /\ rest

\* (validCoords.rank - targetCoords.rank)^2 + (validCoords.file - targetCoords.file)^2:
\* Math.sqrt is increasing and exact on 4, so the squares are compared.
DistanceSquared(a, b) ==
    (a.rank - b.rank) * (a.rank - b.rank) + (a.file - b.file) * (a.file - b.file)

\* findNearestValidSquare(targetSquare, validMoves): the first of the nearest
\* squares in the order of the set, when within 2 squares; null otherwise.
findNearestValidSquare(targetSquare, validMoves) ==
    LET dist(i) == DistanceSquared(squareToRankFile(validMoves[i]), squareToRankFile(targetSquare))
        nearest == FirstIndex({i \in 1..Len(validMoves) :
                                 \A j \in 1..Len(validMoves) : dist(i) <= dist(j)})
    IN  IF Len(validMoves) = 0 THEN NullSquare
        ELSE IF dist(nearest) <= 4 THEN validMoves[nearest] ELSE NullSquare

\* handleMouseEnter(rank, file): the hovered square it leaves, given the one before.
handleMouseEnter(rank, file, hovered) ==
    LET square == rankFileToSquare(rank, file)
    IN  IF isDrawingArrow /\ arrowStart # NullSquare
        THEN IF props.snapToValidMoves /\ Includes(arrowValidMoves, square) THEN square
             ELSE IF ~props.snapToValidMoves THEN square
             ELSE hovered
        ELSE hovered

\* handleMouseMove(e, rank, file): the hovered square it leaves, given the one before.
handleMouseMove(rank, file, hovered) ==
    LET square == rankFileToSquare(rank, file)
        nearestValid == findNearestValidSquare(square, arrowValidMoves)
    IN  IF isDrawingArrow /\ arrowStart # NullSquare /\ props.snapToValidMoves
        THEN IF Includes(arrowValidMoves, square) THEN square
             ELSE IF nearestValid # NullSquare THEN nearestValid
             ELSE hovered
        ELSE hovered

\* The pointer moved: the hovered square is set, nothing else.
Hovered(op, rank, file, hovered) ==
    /\ dragOverSquare' = hovered
    /\ Rendered(op, rank, file, <<>>, internalSelectedSquare)
    /\ UNCHANGED <<draggedPiece, premoves, showPromotionDialog, pendingPromotion>>
    /\ UNCHANGED chessHistory
    /\ PointerOnly

\* onMouseEnter: handleMouseEnter, then handleMouseMove while an arrow is drawn.
onMouseEnter(rank, file) ==
    Hovered("mouseEnter", rank, file,
            IF isDrawingArrow
            THEN handleMouseMove(rank, file, handleMouseEnter(rank, file, dragOverSquare))
            ELSE handleMouseEnter(rank, file, dragOverSquare))

\* onMouseMove: handleMouseMove while an arrow is drawn.
onMouseMove(rank, file) ==
    Hovered("mouseMove", rank, file,
            IF isDrawingArrow THEN handleMouseMove(rank, file, dragOverSquare)
            ELSE dragOverSquare)

(***************************************************************************)
(* The FEN effect and the animation timer                                  *)
(***************************************************************************)

\* grid.length (rows are indexed from 0)
Rows(grid) == Cardinality(DOMAIN grid)

\* parseFen on the positions the handle can hold, and the diff on the pairs
\* of grids it can meet, each computed once.
ParsedFens == [f \in DOMAIN Positions |-> parseFen(f)]

KnownGrids == {ParsedFens[f] : f \in DOMAIN Positions}

KnownDiffs == [o \in KnownGrids, n \in KnownGrids |-> detectAndAnimateMoves(o, n)]

\* chess.load(fen) throws for a FEN the rules engine rejects.
LoadThrows(fen) == fen \notin (ValidFens \cup Chess960Fens)

MaxTimers == 2

\* if (previousBoardState.length > 0 && animationDuration > 0 && previousFen !== fen),
\* reached when chess.load(fen) did not throw
Animates(fen) ==
    /\ ~LoadThrows(fen)
    /\ Rows(previousBoardState) > 0
    /\ props.animationDuration > 0
    /\ chess # fen

\* The record of a run of the FEN effect.
FenEffectRan(op, fen) ==
    [Ran(op, 0, 0, <<>>) EXCEPT !.oldBoard = IF Animates(fen) THEN previousBoardState ELSE <<>>]

\* The body of the FEN effect, run for the fen of the current render: the
\* handle is loaded (or reset), the grids are replaced and, when a previous
\* grid exists and the FEN differs, the diff is recorded and its timer started.
FenEffect(fen) ==
    LET previousFen == chess
        loaded == IF LoadThrows(fen) THEN "start" ELSE fen
        newBoardState == ParsedFens[loaded]
        animate == Animates(fen)
        diff == KnownDiffs[previousBoardState, newBoardState]
        startsTimer == animate /\ (DOMAIN diff.animating # {} \/ DOMAIN diff.captured # {})
    IN  /\ chess' = loaded
        /\ chessHistory' = <<>>
        /\ previousBoardState' = (IF Rows(boardState) > 0 THEN boardState ELSE newBoardState)
        /\ boardState' = newBoardState
        /\ animatingPieces' = (IF animate THEN diff.animating ELSE animatingPieces)
        /\ capturedPieces' = (IF animate THEN diff.captured ELSE capturedPieces)
        /\ startsTimer => timers < MaxTimers
        /\ timers' = (IF startsTimer THEN timers + 1 ELSE timers)

\* The first run of the effects, after the first render.
MountEffect ==
    /\ lifecycle = "rendered"
    /\ lifecycle' = "mounted"
    /\ FenEffect(props.fen)
    /\ last' = FenEffectRan("mountEffect", props.fen)
    /\ UNCHANGED <<props, internalSelectedSquare, draggedPiece, dragOverSquare, premoves,
                   showPromotionDialog, pendingPromotion, calculatedLegalMoves, isPlayerTurn>>
    /\ UNCHANGED <<keyboardInput, arrowStart, isDrawingArrow, rightClickedSquares, arrowValidMoves>>
    /\ BoardFrame

\* The FEN strings the host supplies.
HostFens == {"white", "black", "invalid"}

\* The host renders the board with another FEN; the FEN effect runs.
HostSetsFen(fen) ==
    /\ lifecycle = "mounted"
    /\ fen # props.fen
    /\ props' = [props EXCEPT !.fen = fen]
    /\ FenEffect(fen)
    /\ last' = FenEffectRan("fen", fen)
    /\ UNCHANGED <<lifecycle, internalSelectedSquare, draggedPiece, dragOverSquare, premoves,
                   showPromotionDialog, pendingPromotion, calculatedLegalMoves, isPlayerTurn>>
    /\ UNCHANGED <<keyboardInput, arrowStart, isDrawingArrow, rightClickedSquares, arrowValidMoves>>
    /\ BoardFrame

\* A timeout started by detectAndAnimateMoves fires: both maps are emptied
\* (on a board that was unmounted the two state setters do nothing).
AnimationTimeout ==
    /\ lifecycle \in {"mounted", "unmounted"}
    /\ timers > 0
    /\ timers' = timers - 1
    /\ animatingPieces' = (IF lifecycle = "mounted" THEN EmptyMap ELSE animatingPieces)
    /\ capturedPieces' = (IF lifecycle = "mounted" THEN EmptyMap ELSE capturedPieces)
    /\ last' = Ran("timeout", 0, 0, <<>>)
    /\ UNCHANGED <<props, chess, boardState, previousBoardState, internalSelectedSquare,
                   draggedPiece, dragOverSquare, premoves, showPromotionDialog, pendingPromotion,
                   calculatedLegalMoves, isPlayerTurn>>
    /\ UNCHANGED <<lifecycle, chessHistory, keyboardInput, arrowStart, isDrawingArrow,
                   rightClickedSquares, arrowValidMoves>>
    /\ BoardFrame

(***************************************************************************)
(* The whole engine: mount, every input handler, prop changes              *)
(***************************************************************************)

\* The squares the pointer events land on: a2 and a3.
EngineCells == {[rank |-> 6, file |-> 0], [rank |-> 5, file |-> 0]}

\* The keys pressed.
EngineKeys == {"a", "Escape"}

\* The ways the host mounts the board.
EngineConfigs ==
    {[DefaultProps EXCEPT !.enableKeyboard = TRUE, !.animationDuration = 0],
     [DefaultProps EXCEPT !.enablePremove = TRUE, !.currentPlayerColor = "black",
                          !.animationDuration = 0],
     [DefaultProps EXCEPT !.hasOnArrowsChange = TRUE, !.touchIgnoreRadius = 1]}

\* The state after the first render: the initial values of useState and of
\* the memos; the effects have not run yet.  new Chess(fen) throws for a FEN
\* the rules engine rejects, and then nothing is rendered.
InitMounting(configs, fens) ==
    /\ GenAtRest /\ SqAtRest /\ DiffAtRest
    /\ \E cfg \in configs, f \in fens :
          /\ props = [cfg EXCEPT !.fen = f]
          /\ IF LoadThrows(f)
             THEN /\ lifecycle = "failed"
                  /\ chess = ""
                  /\ calculatedLegalMoves = <<>>
                  /\ isPlayerTurn = TRUE
             ELSE /\ lifecycle = "rendered"
                  /\ chess = f
                  /\ calculatedLegalMoves =
                        CalcLegalMoves(cfg.selectedSquare, cfg.readOnly, cfg.showDestinations, f)
                  /\ isPlayerTurn = CalcIsPlayerTurn(cfg, f)
    /\ boardState = <<>>
    /\ previousBoardState = <<>>
    /\ internalSelectedSquare = NullSquare
    /\ draggedPiece = NoDrag
    /\ dragOverSquare = NullSquare
    /\ premoves = <<>>
    /\ showPromotionDialog = FALSE
    /\ pendingPromotion = NoPromotion
    /\ last = [op |-> "render", rank |-> 0, file |-> 0, key |-> "", inField |-> FALSE,
               input |-> <<>>, calls |-> <<>>, selected |-> NullSquare, legal |-> <<>>,
               queued |-> <<>>, oldBoard |-> <<>>]
    /\ chessHistory = <<>>
    /\ keyboardInput = <<>>
    /\ arrowStart = NullSquare
    /\ isDrawingArrow = FALSE
    /\ rightClickedSquares = {}
    /\ arrowValidMoves = <<>>
    /\ animatingPieces = EmptyMap
    /\ capturedPieces = EmptyMap
    /\ timers = 0
    /\ typed = <<>>

InitEngine == InitMounting(EngineConfigs, HostFens)

Click == lifecycle = "mounted" /\ \E c \in EngineCells : handleSquareClick(c.rank, c.file)

Touch ==
    /\ lifecycle = "mounted"
    /\ \E c \in EngineCells, outside \in BOOLEAN : handleTouchStart(c.rank, c.file, outside)

DragStart == lifecycle = "mounted" /\ \E c \in EngineCells : handleDragStart(c.rank, c.file)

\* The drag hovers over a3 only.
HoverCells == {[rank |-> 5, file |-> 0]}

DragOver == lifecycle = "mounted" /\ \E c \in HoverCells : handleDragOver(c.rank, c.file)

DragLeave == lifecycle = "mounted" /\ \E c \in HoverCells : handleDragLeave(c.rank, c.file)

Drop == lifecycle = "mounted" /\ \E c \in EngineCells : handleDrop(c.rank, c.file)

DragEnd == lifecycle = "mounted" /\ HandleDragEnd

ContextMenu == lifecycle = "mounted" /\ \E c \in EngineCells : handleContextMenu(c.rank, c.file)

KeyDown ==
    /\ lifecycle = "mounted"
    /\ \E key \in EngineKeys, inField \in BOOLEAN : KeyDownEvent(key, inField)

SetReadOnly == lifecycle = "mounted" /\ HostSetsReadOnly

\* The host replaces the FEN by another one the rules engine accepts.
SetFen == \E fen \in ValidFens : HostSetsFen(fen)

NextEngine ==
    \/ MountEffect
    \/ Click
    \/ Touch
    \/ DragStart
    \/ DragOver
    \/ DragLeave
    \/ Drop
    \/ DragEnd
    \/ ContextMenu
    \/ KeyDown
    \/ SetReadOnly
    \/ SetFen
    \/ AnimationTimeout

SpecEngine == InitEngine /\ [][NextEngine]_vars

(***************************************************************************)
(* The FEN prop over the board's life: any string the host may supply      *)
(***************************************************************************)

\* The host replaces the FEN by any other string, accepted or not.
SupplyFen == \E fen \in HostFens : HostSetsFen(fen)

\* The host unmounts the board: the cleanups of the effects run.  The FEN
\* effect has none, and no handle of a timeout is kept: the timeouts pending
\* stay pending.
Unmount ==
    /\ lifecycle = "mounted"
    /\ lifecycle' = "unmounted"
    /\ last' = Ran("unmount", 0, 0, <<>>)
    /\ UNCHANGED <<props, chess, boardState, previousBoardState, internalSelectedSquare,
                   draggedPiece, dragOverSquare, premoves, showPromotionDialog, pendingPromotion,
                   calculatedLegalMoves, isPlayerTurn>>
    /\ UNCHANGED <<chessHistory, keyboardInput, arrowStart, isDrawingArrow, rightClickedSquares,
                   arrowValidMoves, animatingPieces, capturedPieces, timers>>
    /\ BoardFrame

NextFen ==
    \/ MountEffect
    \/ SupplyFen
    \/ AnimationTimeout
    \/ Unmount
    \/ Click
    \/ DragStart
    \/ SetReadOnly

SpecFen == InitEngine /\ [][NextFen]_vars

(***************************************************************************)
(* Keyboard move input: what can be typed                                  *)
(***************************************************************************)

\* The keys pressed: enough to type a2a3 in UCI and a3 in SAN, an upper-case
\* letter, the three special keys, and a key the listener does not accept.
TypedKeys == {"a", "A", "2", "3", "Enter", "Backspace", "Escape", "x"}

\* The ways the host mounts a board with keyboard input.
KeysConfigs ==
    {[DefaultProps EXCEPT !.enableKeyboard = TRUE],
     [DefaultProps EXCEPT !.enableKeyboard = TRUE, !.hasOnKeyboardInput = TRUE],
     [DefaultProps EXCEPT !.enableKeyboard = TRUE, !.hasOnMove = FALSE]}

InitKeys == InitMounting(KeysConfigs, ValidFens)

TypeKey ==
    /\ lifecycle = "mounted"
    /\ \E key \in TypedKeys, inField \in BOOLEAN : KeyDownEvent(key, inField)

NextKeys ==
    \/ MountEffect
    \/ TypeKey
    \/ SetReadOnly

SpecKeys == InitKeys /\ [][NextKeys]_vars

\* The buffer the last key press would leave if the key were only appended.
BufferWithKey == Append(last.input, JsLowerChar(last.key))

\* Four characters: a file letter, a rank digit, a file letter, a rank digit.
FourCharUci(str) ==
    /\ Len(str) = 4
    /\ \A i \in {1, 3} : str[i] \in {"a", "b", "c", "d", "e", "f", "g", "h"}
    /\ \A i \in {2, 4} : str[i] \in {"1", "2", "3", "4", "5", "6", "7", "8"}

\* The last step appended an accepted key, outside any text field, while the
\* keyboard listener was attached (a key press leaves the props as they were).
KeyAppendedToBuffer ==
    /\ last.op = "keyDown"
    /\ ~last.inField
    /\ last.key \in AcceptedKeys
    /\ props.enableKeyboard /\ ~props.readOnly

\* C11: with keyboard input enabled, the board not read-only and onMove
\* supplied, whenever appending an accepted key makes the buffer a four
\* character UCI string, onMove is invoked exactly once, with the first two
\* characters as from and the last two as to, without Enter, and the buffer
\* is empty afterwards.
C11_UciAutoSubmit ==
    (KeyAppendedToBuffer /\ props.hasOnMove /\ FourCharUci(BufferWithKey)) =>
        /\ OnMoveCalls = <<OnMove(SubSeq(BufferWithKey, 1, 2), SubSeq(BufferWithKey, 3, 4), "")>>
        /\ keyboardInput = <<>>

\* The key "3" after a2a was typed: onMove(a2, a3) and an empty buffer.
C11_Witness ==
    /\ KeyAppendedToBuffer /\ props.hasOnMove
    /\ last.input = <<"a", "2", "a">> /\ last.key = "3"
    /\ OnMoveCalls = <<OnMove(<<"a", "2">>, <<"a", "3">>, "")>>
    /\ keyboardInput = <<>>

(***************************************************************************)
(* Properties of the whole engine                                          *)
(***************************************************************************)

\* The steps that are user input: pointer, touch, drag and key events.
UserInputOps ==
    {"click", "touch", "dragStart", "dragOver", "dragLeave", "drop", "dragEnd",
     "contextMenu", "keyDown"}

\* C12: while readOnly is true no user input event invokes onMove, whatever
\* selection or drag was in progress when readOnly was switched on.  (User
\* input leaves the props as they were, so readOnly held when the event came.)
C12_ReadOnlyBlocksMoves ==
    (props.readOnly /\ last.op \in UserInputOps) => OnMoveCalls = <<>>

\* C13: no user-input step changes the displayed grid or the position held
\* by the rules-engine handle (the check probe moves on a copy, so the
\* handle's history does not grow either); the grid and the position change
\* only in a step in which the FEN effect runs for the FEN the host supplied.
C13_InputLeavesPosition ==
    [][/\ last'.op \in UserInputOps =>
            /\ boardState' = boardState
            /\ chess' = chess
            /\ chessHistory' = chessHistory
       /\ (boardState' # boardState \/ chess' # chess) => last'.op \in {"fen", "mountEffect"}]_vars

\* A click-to-move or a drop whose check probe made its move, with the
\* handle's history still empty and the handle on the host's position.
C13_Witness ==
    /\ last.op \in {"click", "drop"}
    /\ OnMoveCalls # <<>>
    /\ ProbeMoveIsMade(chess, OnMoveCalls[1].from, OnMoveCalls[1].to)
    /\ chessHistory = <<>>
    /\ chess = props.fen

\* C14: whenever the FEN the host supplied is one the rules engine rejects,
\* at mount or as a later update, the board is up, shows the standard
\* starting position and holds it in the handle: no error has propagated.
C14_InvalidFenFallsBack ==
    LoadThrows(props.fen) =>
        /\ lifecycle = "mounted"
        /\ boardState = parseFen("start")
        /\ chess = "start"

\* C15: in every state of a board that rendered, the first render included,
\* the grid has exactly 8 rows of 8 cells.
C15_GridIs8x8 ==
    lifecycle # "failed" =>
        /\ Rows(boardState) = 8
        /\ \A rank \in DOMAIN boardState : Rows(boardState[rank]) = 8

\* The transient interaction state is empty: no internal selection, no drag,
\* no queued premove, nothing in the keyboard buffer.
TransientStateReset ==
    /\ internalSelectedSquare = NullSquare
    /\ draggedPiece = NoDrag
    /\ premoves = <<>>
    /\ keyboardInput = <<>>

\* C16: after the host replaces the FEN, all transient state is reset.
C16_FenResetsTransient == last.op = "fen" => TransientStateReset

\* C17: after readOnly is toggled, in either direction, all transient state
\* is reset.
C17_ReadOnlyResetsTransient == last.op = "readOnly" => TransientStateReset

\* C18: queued premoves are discarded on the next turn change: after a FEN
\* update whose side to move differs from the one before, the queue is empty;
\* and no step other than user input invokes onMove (the engine plays no
\* queued premove on its own).
C18_TurnChangeDropsPremoves ==
    [][/\ (lifecycle = "mounted" /\ last'.op = "fen" /\ ChessTurn(chess') # ChessTurn(chess))
            => premoves' = <<>>
       /\ last'.op \notin UserInputOps => OnMoveCalls' = <<>>]_vars

\* The side to move is not the player's: currentPlayerColor is set and
\* differs from the turn of the position the handle holds.
OffTurn ==
    /\ lifecycle = "mounted"
    /\ props.currentPlayerColor # ""
    /\ ChessTurn(chess) # (IF props.currentPlayerColor = "white" THEN "w" ELSE "b")

\* C19: with premoves enabled and currentPlayerColor set, every move
\* attempted while the side to move is not currentPlayerColor, by a drop of a
\* dragged piece or by a click on another square than the selected one (the
\* board not read-only, onMove supplied, click input enabled), is appended to
\* the premove queue as (from, to), and onMove is not invoked.
C19_OffTurnMoveIsQueued ==
    [][/\ (props.enablePremove /\ OffTurn /\ last'.op = "drop" /\ draggedPiece # NoDrag
          /\ props.hasOnMove /\ ~props.hasOnPromotionSelect) =>
            /\ premoves' = Append(premoves, [from |-> draggedPiece.square,
                                              to |-> rankFileToSquare(last'.rank, last'.file)])
            /\ OnMoveCalls' = <<>>
       /\ (props.enablePremove /\ OffTurn /\ last'.op = "click" /\ ClickTakenAsMoveInput
          /\ Len(props.arrows) = 0
          /\ selectedSquare # NullSquare
          /\ selectedSquare # rankFileToSquare(last'.rank, last'.file)) =>
            /\ premoves' = Append(premoves, [from |-> selectedSquare,
                                              to |-> rankFileToSquare(last'.rank, last'.file)])
            /\ OnMoveCalls' = <<>>]_vars

\* What a right-click that only cancels the premoves leaves alone: the arrow
\* being drawn, the highlights, the selection, the drag, the buffer, the grid.
RightClickOnlyCancels ==
    /\ premoves' = <<>>
    /\ last'.calls = <<>>
    /\ arrowStart' = arrowStart /\ isDrawingArrow' = isDrawingArrow
    /\ rightClickedSquares' = rightClickedSquares
    /\ dragOverSquare' = dragOverSquare /\ draggedPiece' = draggedPiece
    /\ internalSelectedSquare' = internalSelectedSquare
    /\ keyboardInput' = keyboardInput
    /\ boardState' = boardState /\ chess' = chess /\ props' = props

MaxTyped == 6

\* The keys pressed: enough to type Nf3 and f3, and o-o, 0-0, o-o-o, 0-0-0.
SanKeys == {"N", "f", "3", "o", "-", "0", "Enter"}

SanConfigs == {[DefaultProps EXCEPT !.enableKeyboard = TRUE]}

InitSan == InitMounting(SanConfigs, {"white"} \cup Chess960Fens)

\* A run of typed keys that began while the buffer was not empty is not
\* recorded key by key: this mark stands for it.
StaleBuffer == "?"

\* The run of keys after one more key: a run ends with Enter or Escape, and
\* the next key begins a new one.
TypedAfter(key) ==
    IF typed = <<>> \/ typed[Len(typed)] \in {"Enter", "Escape"}
    THEN (IF keyboardInput = <<>> THEN <<key>> ELSE <<StaleBuffer>>)
    ELSE IF typed[1] = StaleBuffer
    THEN (IF key \in {"Enter", "Escape"} THEN <<StaleBuffer, key>> ELSE typed)
    ELSE Append(typed, key)

\* The user presses a key, outside any text field.
TypeSanKey ==
    /\ lifecycle = "mounted"
    /\ \E key \in SanKeys :
          /\ Len(TypedAfter(key)) <= MaxTyped
          /\ WindowKeyDown(key, FALSE)
          /\ typed' = TypedAfter(key)

NextSan ==
    \/ MountEffect
    \/ TypeSanKey

SpecSan == InitSan /\ [][NextSan]_vars

\* C21: with keyboard input enabled (the board not read-only, onMove
\* supplied), for every legal move of the current position, after the keys of
\* the move's SAN were pressed one by one on an empty buffer and then Enter,
\* onMove has been invoked once with that move's from and to squares and the
\* buffer is empty.
C21_SanThenEnter ==
    \A i \in 1..Len(Positions[chess].moves) :
        (/\ lifecycle = "mounted" /\ last.op = "keyDown"
         /\ props.enableKeyboard /\ ~props.readOnly /\ props.hasOnMove
         /\ typed = Append(Positions[chess].moves[i].san, "Enter")) =>
            /\ OnMoveCalls = <<OnMove(Positions[chess].moves[i].from,
                                      Positions[chess].moves[i].to, "")>>
            /\ keyboardInput = <<>>

\* The castling tokens, as the buffer holds them.
KingsideTokens == {<<"o", "-", "o">>, <<"0", "-", "0">>}
QueensideTokens == {<<"o", "-", "o", "-", "o">>, <<"0", "-", "0", "-", "0">>}

\* The squares on which a king of the side to move stands.
KingSquares ==
    {pl.square : pl \in {x \in Positions[chess].placed :
                            x.type = "k" /\ x.color = ChessTurn(chess)}}

\* Enter was pressed on a buffer holding a castling token, with the keyboard
\* listener attached and onMove supplied.
CastlingTokenSubmitted ==
    /\ lifecycle = "mounted"
    /\ last.op = "keyDown" /\ last.key = "Enter" /\ ~last.inField
    /\ props.enableKeyboard /\ ~props.readOnly /\ props.hasOnMove
    /\ last.input \in KingsideTokens \cup QueensideTokens

\* C22: for a castling token submitted with Enter, onMove is invoked with
\* from = the square on which the king of the side to move stands and to = a
\* square of that side's back rank, on the kingside of the king for o-o and
\* 0-0, on its queenside for o-o-o and 0-0-0, wherever the king stands.
C22_CastlingFromKingSquare ==
    CastlingTokenSubmitted =>
        /\ Len(OnMoveCalls) = 1
        /\ OnMoveCalls[1].from \in KingSquares
        /\ OnMoveCalls[1].to[2] = (IF ChessTurn(chess) = "w" THEN "1" ELSE "8")
        /\ \A k \in KingSquares :
              IF last.input \in KingsideTokens
              THEN charCodeAt0(OnMoveCalls[1].to) > charCodeAt0(k)
              ELSE charCodeAt0(OnMoveCalls[1].to) < charCodeAt0(k)

(***************************************************************************)
(* moveInputMode: which gestures reach the handlers                        *)
(***************************************************************************)

\* The element that carries onDragStart is rendered where a piece stands that
\* is neither being dragged nor animated (blindfold is left at its default),
\* with draggable={!readOnly && isDragEnabled}: the browser starts a drag,
\* and delivers dragstart, only on a draggable element.
IsDraggable_Always(rank, file) == TRUE
IsDraggable(rank, file) ==
    /\ PieceAt(boardState, rank, file) # NullPiece
    /\ draggedPiece.square # rankFileToSquare(rank, file)
    /\ AnimKey(rankFileToSquare(rank, file), PieceAt(boardState, rank, file))
          \notin DOMAIN animatingPieces
    /\ ~props.readOnly
    /\ isDragEnabled

\* The user starts dragging a piece the browser lets them drag.
PieceDragStart ==
    /\ lifecycle = "mounted"
    /\ \E c \in EngineCells : IsDraggable(c.rank, c.file) /\ handleDragStart(c.rank, c.file)

\* The ways the host mounts the board: each input mode, and click-only with
\* premoves enabled.
ModeConfigs ==
    {DefaultProps,
     [DefaultProps EXCEPT !.moveInputMode = "drag"],
     [DefaultProps EXCEPT !.moveInputMode = "click"],
     [DefaultProps EXCEPT !.moveInputMode = "click", !.enablePremove = TRUE,
                          !.currentPlayerColor = "black"],
     [DefaultProps EXCEPT !.moveInputMode = "drag", !.enablePremove = TRUE,
                          !.currentPlayerColor = "black"]}

InitModes == InitMounting(ModeConfigs, {"white"})

NextModes ==
    \/ MountEffect
    \/ Click
    \/ Touch
    \/ PieceDragStart
    \/ DragOver
    \/ Drop
    \/ DragEnd
    \/ SetReadOnly

SpecModes == InitModes /\ [][NextModes]_vars

\* C23: in 'drag' mode no click or touch invokes onMove or changes the
\* selection; in 'click' mode no drag-start, drop or drag-end invokes onMove,
\* nothing is ever being dragged and no premove is ever queued.
C23_ModeRestrictsGestures ==
    [][/\ (props.moveInputMode = "drag" /\ last'.op \in {"click", "touch"}) =>
            /\ OnMoveCalls' = <<>>
            /\ internalSelectedSquare' = internalSelectedSquare
            /\ selectedSquare' = selectedSquare
       /\ props.moveInputMode = "click" =>
            /\ draggedPiece' = NoDrag
            /\ premoves' = <<>>
            /\ last'.op \in {"dragStart", "dragOver", "drop", "dragEnd"} => OnMoveCalls' = <<>>]_vars

\* In 'drag' mode, a click on another square than the selected one (the
\* selection came from a drag-start) left the selection and invoked nothing.
C23_Witness ==
    /\ props.moveInputMode = "drag" /\ ~props.readOnly
    /\ last.op = "click"
    /\ last.selected # NullSquare
    /\ ClickedSquare # last.selected
    /\ last.calls = <<>>
    /\ internalSelectedSquare = last.selected

(***************************************************************************)
(* Host-supplied legal moves, arrow erasing, promotion                     *)
(***************************************************************************)

\* C24: when the host supplies a non-empty legalMoves list, with a square
\* selected, a click on a different square that is not in the host's list
\* never invokes onMove, whatever the value of showDestinations.
C24_HostLegalMovesOverride ==
    (/\ last.op = "click"
     /\ Len(props.legalMoves) > 0
     /\ last.selected # NullSquare
     /\ ClickedSquare # last.selected
     /\ ~Includes(props.legalMoves, ClickedSquare)) => OnMoveCalls = <<>>

\* The arrow touches the square: it starts or ends there.
Touches(arrow, square) == arrow.startSquare = square \/ arrow.endSquare = square

\* The list without its first arrow touching the square, the others in order.
WithoutFirstTouching(arrows, square) ==
    LET k == CHOOSE i \in 1..Len(arrows) :
                /\ Touches(arrows[i], square)
                /\ \A j \in 1..(i - 1) : ~Touches(arrows[j], square)
    IN  SubSeq(arrows, 1, k - 1) \o SubSeq(arrows, k + 1, Len(arrows))

\* C25: with eraseArrowsOnClick enabled and an arrows change callback supplied,
\* a left click on a square that is the start or end of at least one arrow
\* reports the arrow list with exactly one arrow removed (the first one
\* touching that square, the others kept in order), invokes no onMove and
\* leaves the selection as it was, whether or not a square was selected.
C25_ClickErasesOneArrow ==
    [][(/\ last'.op = "click"
        /\ props.eraseArrowsOnClick /\ props.hasOnArrowsChange
        /\ \E i \in 1..Len(props.arrows) :
              Touches(props.arrows[i], rankFileToSquare(last'.rank, last'.file))) =>
          /\ last'.calls =
                <<OnArrowsChange(WithoutFirstTouching(props.arrows,
                                    rankFileToSquare(last'.rank, last'.file)))>>
          /\ internalSelectedSquare' = internalSelectedSquare
          /\ selectedSquare' = selectedSquare]_vars

(***************************************************************************)
(* The animation diff over a sequence of FEN updates, and its timers       *)
(***************************************************************************)

\* C26: on every FEN update that triggers a diff, the old grid passed to the
\* diff is the grid displayed just before the update (the grid of the
\* immediately preceding FEN), at the first update and at every later one.
C26_DiffAgainstDisplayedGrid ==
    [][(last'.op \in {"fen", "mountEffect"} /\ last'.oldBoard # <<>>) =>
          last'.oldBoard = boardState]_vars

\* Some animation or capture entry is recorded.
EntriesRecorded == DOMAIN animatingPieces # {} \/ DOMAIN capturedPieces # {}

\* C27: the entries recorded by a FEN update are removed by the timer of that
\* update, both maps being emptied in one step, or replaced by a later update;
\* a timer started by an earlier update is cancelled and never clears the
\* entries of a later update, and so is a timer pending at unmount.  (The
\* timeouts all wait the same duration and fire in the order they were
\* started: while more than one is pending, the one that fires belongs to an
\* earlier update than the entries recorded.)
C27_TimerClearsOwnEntries ==
    [][/\ last'.op = "timeout" =>
            /\ lifecycle = "mounted" => (animatingPieces' = EmptyMap /\ capturedPieces' = EmptyMap)
            /\ timers > 1 => ~EntriesRecorded
       /\ (animatingPieces' # animatingPieces \/ capturedPieces' # capturedPieces) =>
            last'.op \in {"timeout", "fen", "mountEffect"}
       /\ last'.op = "unmount" => timers' = 0]_vars

(***************************************************************************)
(* Promotion                                                               *)
(***************************************************************************)

\* A piece is dropped, by a legal move, as a pawn on the final rank for its
\* colour, while the host supplies onPromotionSelect.
PromotionDropped ==
    /\ props.hasOnPromotionSelect
    /\ last'.op = "drop"
    /\ draggedPiece # NoDrag
    /\ IsPromotion(ChessGet(chess, draggedPiece.square),
                   rankFileToSquare(last'.rank, last'.file))
    /\ \E i \in 1..Len(ChessMoves(chess, draggedPiece.square)) :
          ChessMoves(chess, draggedPiece.square)[i].to = rankFileToSquare(last'.rank, last'.file)

\* C28: when a pawn is dropped on the final rank for its colour and
\* onPromotionSelect is supplied, the drop records the pending promotion
\* (from, to), invokes the host's promotion callback, and does not invoke onMove.
C28_PromotionDropAsksHost ==
    [][PromotionDropped =>
          /\ pendingPromotion' = [from |-> draggedPiece.square,
                                  to |-> rankFileToSquare(last'.rank, last'.file)]
          /\ \E i \in 1..Len(last'.calls) : last'.calls[i].fn = "onPromotionSelect"
          /\ OnMoveCalls' = <<>>]_vars

\* The squares of a promotion by the pawn on b7: b7 and b8.
PromotionCells == {[rank |-> 1, file |-> 1], [rank |-> 0, file |-> 1]}

\* The ways the host mounts a board that asks it for the promotion piece.
PromotionConfigs ==
    {[DefaultProps EXCEPT !.hasOnPromotionSelect = TRUE],
     [DefaultProps EXCEPT !.hasOnPromotionSelect = TRUE, !.enableKeyboard = TRUE]}

InitPromotion == InitMounting(PromotionConfigs, ValidFens)

PromotionClick ==
    lifecycle = "mounted" /\ \E c \in PromotionCells : handleSquareClick(c.rank, c.file)

PromotionDragStart ==
    /\ lifecycle = "mounted"
    /\ \E c \in PromotionCells : IsDraggable(c.rank, c.file) /\ handleDragStart(c.rank, c.file)

PromotionDrop ==
    lifecycle = "mounted" /\ \E c \in PromotionCells : handleDrop(c.rank, c.file)

NextPromotion ==
    \/ MountEffect
    \/ PromotionClick
    \/ PromotionDragStart
    \/ PromotionDrop
    \/ DragEnd
    \/ KeyDown
    \/ SetReadOnly
    \/ SetFen
    \/ AnimationTimeout

\* The effects run after the render and a timeout that was started fires;
\* beyond that, every event the board listens to keeps arriving for as long
\* as it can: the user keeps clicking, dragging, dropping and typing, and the
\* host keeps rendering the board with other props.
FairPromotion ==
    /\ WF_vars(MountEffect)
    /\ WF_vars(AnimationTimeout)
    /\ WF_vars(PromotionClick)
    /\ WF_vars(PromotionDragStart)
    /\ WF_vars(PromotionDrop)
    /\ WF_vars(DragEnd)
    /\ WF_vars(KeyDown)
    /\ WF_vars(SetReadOnly)
    /\ WF_vars(SetFen)

SpecPromotion == InitPromotion /\ [][NextPromotion]_vars /\ FairPromotion

\* C29: a pending promotion that was recorded is eventually cleared, by the
\* move being reported or by the promotion being cancelled.
C29_PendingPromotionResolved ==
    (pendingPromotion # NoPromotion) ~> (pendingPromotion = NoPromotion)

\* C30: when onPromotionSelect is not supplied, every onMove reported for a
\* pawn that arrives on the final rank for its colour carries the queen as
\* its promotion piece, whichever handler reported it, and every other onMove
\* carries no promotion piece.
C30_QueenByDefault ==
    ~props.hasOnPromotionSelect =>
        \A i \in 1..Len(OnMoveCalls) :
            OnMoveCalls[i].promotion =
                IF IsPromotion(ChessGet(chess, OnMoveCalls[i].from), OnMoveCalls[i].to)
                THEN "q" ELSE ""

(***************************************************************************)
(* The rook-castling gesture                                               *)
(***************************************************************************)

\* The squares clicked: a1, f1, h1 and a2.
RookCells ==
    {[rank |-> 7, file |-> 0], [rank |-> 7, file |-> 5], [rank |-> 7, file |-> 7],
     [rank |-> 6, file |-> 0]}

\* The ways the host mounts the board.
RookConfigs ==
    {DefaultProps,
     [DefaultProps EXCEPT !.rookCastle = FALSE],
     [DefaultProps EXCEPT !.currentPlayerColor = "white"],
     [DefaultProps EXCEPT !.currentPlayerColor = "black"],
     [DefaultProps EXCEPT !.selectedSquare = NullSquare],
     [DefaultProps EXCEPT !.moveInputMode = "drag"]}

InitRook == InitMounting(RookConfigs, ValidFens \cup Chess960Fens)

RookClick ==
    lifecycle = "mounted" /\ \E c \in RookCells : handleSquareClick(c.rank, c.file)

NextRook ==
    \/ MountEffect
    \/ RookClick
    \/ SetReadOnly

SpecRook == InitRook /\ [][NextRook]_vars

\* The step is a click, with rookCastle enabled and no square selected, on a
\* square where the grid shows a rook.
RookClicked ==
    /\ last'.op = "click"
    /\ props.rookCastle
    /\ selectedSquare = NullSquare
    /\ PieceAt(boardState, last'.rank, last'.file) # NullPiece
    /\ PieceAt(boardState, last'.rank, last'.file).type = "r"

ClickedRookColor == PieceAt(boardState, last'.rank, last'.file).color

ClickedRookToMove == ChessTurn(chess) = (IF ClickedRookColor = "white" THEN "w" ELSE "b")

\* The legal castling moves of the back-rank king of the clicked rook's
\* colour to the rook's side: kingside when the rook's file is greater than
\* the king's.
CastlingsOnRookSide ==
    {m \in {Positions[chess].moves[i] : i \in 1..Len(Positions[chess].moves)} :
        /\ ChessGet(chess, m.from) =
              [type |-> "k", color |-> IF ClickedRookColor = "white" THEN "w" ELSE "b"]
        /\ m.from[2] = (IF ClickedRookColor = "white" THEN "1" ELSE "8")
        /\ \/ Includes(m.flags, "k") /\ last'.file > charCodeAt0(m.from) - 97
           \/ Includes(m.flags, "q") /\ ~(last'.file > charCodeAt0(m.from) - 97)}

\* The click castles: onMove(kingSquare, castlingTarget) once, nothing selected.
RookClickCastles ==
    /\ \E m \in CastlingsOnRookSide : OnMoveCalls' = <<OnMove(m.from, m.to, "")>>
    /\ selectedSquare' = NullSquare

\* The click selects the rook and invokes no onMove.
RookClickSelects ==
    /\ OnMoveCalls' = <<>>
    /\ selectedSquare' = rankFileToSquare(last'.rank, last'.file)

RookClickTaken ==
    /\ ClickTakenAsMoveInput'
    /\ props.selectedSquare = UndefinedSquare

ArrowCells ==
    {[rank |-> 6, file |-> 0], [rank |-> 5, file |-> 0], [rank |-> 3, file |-> 0],
     [rank |-> 1, file |-> 1]}

\* The ways the host mounts a board that reports arrows.
ArrowConfigs ==
    {[DefaultProps EXCEPT !.hasOnArrowsChange = TRUE],
     [DefaultProps EXCEPT !.hasOnArrowsChange = TRUE, !.snapToValidMoves = FALSE],
     [DefaultProps EXCEPT !.hasOnArrowsChange = TRUE, !.arrows = BoardArrows]}

InitArrows == InitMounting(ArrowConfigs, {"white"})

ArrowContextMenu ==
    lifecycle = "mounted" /\ \E c \in ArrowCells : handleContextMenu(c.rank, c.file)

MouseEnter == lifecycle = "mounted" /\ \E c \in ArrowCells : onMouseEnter(c.rank, c.file)

MouseMove == lifecycle = "mounted" /\ \E c \in ArrowCells : onMouseMove(c.rank, c.file)

NextArrows ==
    \/ MountEffect
    \/ ArrowContextMenu
    \/ MouseEnter
    \/ MouseMove
    \/ SetReadOnly

SpecArrows == InitArrows /\ [][NextArrows]_vars

\* The step is a right-click, on a board that is not read-only, while an
\* arrow is being drawn, on the square the pointer last entered or moved on.
SecondRightClick ==
    /\ last'.op = "contextMenu"
    /\ last.op \in {"mouseEnter", "mouseMove"}
    /\ last.rank = last'.rank /\ last.file = last'.file
    /\ ~props.readOnly
    /\ props.hasOnArrowsChange
    /\ premoves = <<>>
    /\ isDrawingArrow
    /\ arrowStart # NullSquare

\* C32: while an arrow is being drawn from S, a right-click on S reports no
\* arrow to the host and clears the arrow start, with snapping enabled and
\* whatever squares the pointer hovered in between.
C32_SameSquareCancels ==
    [][(SecondRightClick /\ rankFileToSquare(last'.rank, last'.file) = arrowStart) =>
          /\ \A i \in 1..Len(last'.calls) : last'.calls[i].fn # "onArrowsChange"
          /\ arrowStart' = NullSquare
          /\ ~isDrawingArrow']_vars

\* The ends C33 allows for an arrow from start completed by a right-click on
\* square: the square itself or, with snapping, a legal destination from
\* start within distance 2 of the square.
AllowedEnds(start, square) ==
    {square} \cup
    {e \in {ChessMoves(chess, start)[i].to : i \in 1..Len(ChessMoves(chess, start))} :
        /\ props.snapToValidMoves
        /\ DistanceSquared(squareToRankFile(e), squareToRankFile(square)) <= 4}

\* C33: while an arrow is being drawn from S, a right-click on another
\* square X reports the host's arrow list with one arrow appended, from S to
\* X or, with snapping, to a legal destination from S within distance 2 of
\* X, and clears the arrow start.
C33_OtherSquareCommits ==
    [][(SecondRightClick /\ rankFileToSquare(last'.rank, last'.file) # arrowStart) =>
          /\ \E e \in AllowedEnds(arrowStart, rankFileToSquare(last'.rank, last'.file)) :
                last'.calls = <<OnArrowsChange(Append(props.arrows, NewArrow(arrowStart, e)))>>
          /\ arrowStart' = NullSquare]_vars

(***************************************************************************)
(* What the selection holds                                                *)
(***************************************************************************)

\* The colour that moves: currentPlayerColor when set, else the side to move.
MoverColor ==
    IF props.currentPlayerColor # ""
    THEN (IF props.currentPlayerColor = "white" THEN "w" ELSE "b")
    ELSE ChessTurn(chess)

\* The internally selected square, when there is one, holds a piece of the
\* colour that moves.
SelectedIsMoversPiece ==
    internalSelectedSquare # NullSquare =>
        /\ ChessGet(chess, internalSelectedSquare) # NullPiece
        /\ ChessGet(chess, internalSelectedSquare).color = MoverColor

\* C34: a click with nothing selected selects the clicked square only if it
\* holds a piece of the side to move (of currentPlayerColor when set): after
\* a click on an empty square or on a piece of the opponent the selection is
\* still empty, so that a selected square always holds a mover's piece.
C34_ClickSelectsMoversPiece ==
    [][(last'.op = "click" /\ internalSelectedSquare = NullSquare) => SelectedIsMoversPiece']_vars

(***************************************************************************)
(* The listeners on the window                                             *)
(***************************************************************************)

\* The keydown listeners the effects keep on the window, in the order of
\* the effects: the keyboard effect returns before it attaches anything when
\* !enableKeyboard || readOnly; the escape effect attaches its listener in
\* every run.  The cleanups remove them at unmount.
keydownListeners ==
    IF lifecycle # "mounted" THEN <<>>
    ELSE (IF KeyboardListening THEN <<"handleKeyDown">> ELSE <<>>) \o <<"handleEscape">>

\* The mousemove listeners on the window: the ghost-piece effect returns
\* before it attaches anything when !draggedPiece.
mousemoveListeners ==
    IF lifecycle = "mounted" /\ draggedPiece # NoDrag THEN <<"handleMouseMove">> ELSE <<>>

\* The state a listener belongs to is active.
ListenerStateActive(listener) ==
    CASE listener = "handleKeyDown" -> KeyboardListening
      [] listener = "handleEscape" -> isDrawingArrow
      [] listener = "handleMouseMove" -> draggedPiece # NoDrag

\* C35: a key-down or pointer-move listener is on the window only while its
\* state is active (keyboard capture enabled and the board not read-only, an
\* arrow being drawn, a drag in progress), at most one listener of each kind
\* is attached at a time, and none is attached after the unmount.
C35_ListenersScoped ==
    /\ Len(keydownListeners) <= 1
    /\ Len(mousemoveListeners) <= 1
    /\ \A i \in 1..Len(keydownListeners) : ListenerStateActive(keydownListeners[i])
    /\ \A i \in 1..Len(mousemoveListeners) : ListenerStateActive(mousemoveListeners[i])
    /\ lifecycle = "unmounted" => (keydownListeners = <<>> /\ mousemoveListeners = <<>>)

(***************************************************************************)
(* The memos across FEN updates                                            *)
(***************************************************************************)

\* C36: after any FEN updates, the turn test read by handleDragStart and
\* handleDrop equals (side to move of the FEN supplied last =
\* currentPlayerColor), and is true when currentPlayerColor is not set.
C36_TurnTestFollowsFen ==
    (lifecycle = "mounted" /\ props.fen \in ValidFens) =>
        isPlayerTurn = (\/ props.currentPlayerColor = ""
                        \/ ChessTurn(props.fen) =
                              (IF props.currentPlayerColor = "white" THEN "w" ELSE "b"))

\* The last step was a click that reached the legal-destination gate of
\* handleSquareClick with the set the board computed itself: a square was
\* selected, destinations are shown and the host supplied no legalMoves.
ClickGatedByComputedSet ==
    /\ last.op = "click"
    /\ ClickTakenAsMoveInput
    /\ last.selected # NullSquare
    /\ props.showDestinations
    /\ Len(props.legalMoves) = 0
    /\ props.fen \in ValidFens

\* C37: whenever a click is gated by the set the board computed, that set
\* is the set of the rules engine's legal destinations from the selected
\* square in the position of the FEN supplied last, also when the selection
\* was made before that FEN arrived.
C37_GateUsesCurrentPosition ==
    ClickGatedByComputedSet =>
        {last.legal[i] : i \in 1..Len(last.legal)} =
        {ChessMoves(props.fen, last.selected)[i].to :
            i \in 1..Len(ChessMoves(props.fen, last.selected))}

(***************************************************************************)
(* Drops the rules engine does not allow                                   *)
(***************************************************************************)

\* The step drops the dragged piece on a square that is not among the rules
\* engine's legal destinations from the square it was dragged from.
IllegalDrop ==
    /\ last'.op = "drop"
    /\ draggedPiece # NoDrag
    /\ \A i \in 1..Len(ChessMoves(chess, draggedPiece.square)) :
          ChessMoves(chess, draggedPiece.square)[i].to # rankFileToSquare(last'.rank, last'.file)

\* C38: a drop of a dragged piece on a square that is not a legal
\* destination for it never invokes onMove, with premoves enabled or not;
\* with premoves enabled it is at most queued as a premove.
C38_IllegalDropNotReported ==
    [][IllegalDrop =>
          /\ OnMoveCalls' = <<>>
          /\ \/ premoves' = premoves
             \/ /\ props.enablePremove
                /\ premoves' = Append(premoves, [from |-> draggedPiece.square,
                                                  to |-> rankFileToSquare(last'.rank, last'.file)])]_vars

(***************************************************************************)
(* The host's arrows on a read-only board                                  *)
(***************************************************************************)

\* C39: while readOnly is true no handler invokes onArrowsChange: no click,
\* right-click or key press, Escape included, changes the host's arrow list.
C39_ReadOnlyKeepsArrows ==
    props.readOnly => \A i \in 1..Len(last.calls) : last.calls[i].fn # "onArrowsChange"

(***************************************************************************)
(* The render: display cells, squares and coordinate labels               *)
(***************************************************************************)

\* const actualRank = orientation === 'white' ? displayRank : 7 - displayRank
actualRank(orientation, displayRank) ==
    IF orientation = "white" THEN displayRank ELSE 7 - displayRank

\* const actualFile = orientation === 'white' ? displayFile : 7 - displayFile
actualFile(orientation, displayFile) ==
    IF orientation = "white" THEN displayFile ELSE 7 - displayFile

\* The square rendered in a display cell.
DisplayedSquare(orientation, displayRank, displayFile) ==
    rankFileToSquare(actualRank(orientation, displayRank), actualFile(orientation, displayFile))

\* The display cells of the two orientations, with and without coordinates.
DisplayCells ==
    [orientation : {"white", "black"}, showCoordinates : BOOLEAN,
     displayRank : 0..7, displayFile : 0..7]

InitRender ==
    /\ sqPc = "display" /\ sqIn \in DisplayCells
    /\ sqMid = <<>>
    /\ sqOut = <<>>
    /\ GenAtRest /\ DiffAtRest /\ BoardAtRest

\* The cell's grid coordinates and its square.
RenderCell ==
    /\ sqPc = "display"
    /\ sqMid' = [actualRank |-> actualRank(sqIn.orientation, sqIn.displayRank),
                 actualFile |-> actualFile(sqIn.orientation, sqIn.displayFile),
                 square |-> DisplayedSquare(sqIn.orientation, sqIn.displayRank, sqIn.displayFile)]
    /\ sqPc' = "cell"
    /\ UNCHANGED <<sqIn, sqOut>>
    /\ SqFrame

\* The cell's coordinate labels: 'abcdefgh'[displayFile] in the bottom row,
\* 8 - displayRank in the left column ("" and 0 where no label is rendered).
RenderCoordinates ==
    /\ sqPc = "cell"
    /\ sqOut' = [fileLabel |-> IF sqIn.showCoordinates /\ sqIn.displayRank = 7
                               THEN StrAt(files, sqIn.displayFile) ELSE "",
                 rankLabel |-> IF sqIn.showCoordinates /\ sqIn.displayFile = 0
                               THEN 8 - sqIn.displayRank ELSE 0]
    /\ sqPc' = "labels"
    /\ UNCHANGED <<sqIn, sqMid>>
    /\ SqFrame

NextRender ==
    \/ RenderCell
    \/ RenderCoordinates

SpecRender == InitRender /\ [][NextRender]_vars

\* In both orientations no other display cell renders the square of this
\* one, and the bottom row is the viewer's own back rank.
DisplayIsBijection ==
    sqPc \in {"cell", "labels"} =>
        /\ sqMid.square \in AllSquares
        /\ \A r \in 0..7, f \in 0..7 :
              DisplayedSquare(sqIn.orientation, r, f) = sqMid.square =>
                  (r = sqIn.displayRank /\ f = sqIn.displayFile)
        /\ sqIn.displayRank = 7 =>
              sqMid.square[2] = (IF sqIn.orientation = "white" THEN "1" ELSE "8")

\* The labels rendered in a cell are the file and the rank of its square.
LabelsAgree ==
    sqPc = "labels" =>
        /\ sqOut.fileLabel # "" => sqOut.fileLabel = sqMid.square[1]
        /\ sqOut.rankLabel # 0 => sqOut.rankLabel = parseInt(sqMid.square[2])

\* C40: for both orientations the display-cell to square mapping is a
\* bijection on the 64 squares with the viewer's own back rank at the bottom,
\* and the file letter under each bottom-row cell and the rank digit beside
\* each left-column cell are the file and rank of the square in that cell.
C40_LabelsMatchSquares == DisplayIsBijection /\ LabelsAgree

====
